---- MODULE Spec2Model ----
(***************************************************************************)
(* Model of the scheduling engine ClassScheduler                           *)
(* (src/CurriculumScheduler/models/scheduler.py) and of the room auditor   *)
(* detect_scheduling_conflicts (src/CurriculumScheduler_V3/utils/          *)
(* helpers.py).                                                            *)
(*                                                                         *)
(* Times of day "HH:MM" are represented by the number of half hours since  *)
(* midnight ("07:00" is 14, "20:30" is 41); a duration is a number of half *)
(* hours.  A python dict is a function whose DOMAIN is its key set.        *)
(***************************************************************************)
EXTENDS Integers, Sequences, FiniteSets, TLC

(***************************************************************************)
(* Bounds of the model.                                                    *)
(***************************************************************************)
MaxCourses == 2
MaxRuns == 2
MaxSearchSteps == 40
MaxHours == 8
MaxCounter == 5
MaxTime == 3
MaxGateTime == 2
MaxBooked == 2
MaxArcSections == 3
MaxCspVariables == 4

(***************************************************************************)
(* Generic helpers.                                                        *)
(***************************************************************************)
Range(s) == {s[i] : i \in 1..Len(s)}

RECURSIVE Flatten(_)
Flatten(ss) == IF ss = <<>> THEN <<>> ELSE Head(ss) \o Flatten(Tail(ss))

\* the elements of s whose key is k, in the order of s
Bucket(s, keyed, k) ==
    LET at == SelectSeq([i \in 1..Len(s) |-> i], LAMBDA i : keyed[i] = k)
    IN [j \in 1..Len(at) |-> s[at[j]]]

\* python's stable sort of s on small integer keys in lo..hi, ascending;
\* keyed[i] is the key of s[i]
SortAscending(s, keyed, lo, hi) ==
    LET present == Range(keyed)
    IN Flatten([k \in 1..(hi - lo + 1) |->
           IF lo + k - 1 \in present THEN Bucket(s, keyed, lo + k - 1) ELSE <<>>])

\* python's stable sort with reverse=True: descending keys, ties in input order
SortDescending(s, keyed, lo, hi) ==
    LET present == Range(keyed)
    IN Flatten([k \in 1..(hi - lo + 1) |->
           IF hi - k + 1 \in present THEN Bucket(s, keyed, hi - k + 1) ELSE <<>>])

\* the largest key of a sequence (0 for the empty sequence)
SeqMax(keyed) ==
    LET keys == Range(keyed)
    IN IF keys = {} THEN 0 ELSE CHOOSE m \in keys : \A k \in keys : k <= m

EmptyDict == [k \in {} |-> <<>>]

DictSet(d, k, v) == [x \in (DOMAIN d) \cup {k} |-> IF x = k THEN v ELSE d[x]]

DictDel(d, k) == [x \in (DOMAIN d) \ {k} |-> d[x]]

(***************************************************************************)
(* Time domain: ClassScheduler.__init__ and _generate_time_slots.          *)
(***************************************************************************)
start_hour == 7
end_hour == 21
HalfHoursPerDay == 48

time_slots ==
    Flatten([h \in 1..(end_hour - start_hour) |->
        SelectSeq(<<2 * (start_hour + h - 1), 2 * (start_hour + h - 1) + 1>>,
                  LAMBDA t : (start_hour + h - 1) < end_hour
                             \/ ((start_hour + h - 1) = end_hour /\ t % 2 = 0))])

days == <<"Monday", "Tuesday", "Wednesday", "Thursday", "Friday", "Saturday">>

base_day_pairings ==
    << <<"Monday", "Thursday">>, <<"Tuesday", "Friday">>, <<"Wednesday", "Saturday">> >>

\* time_str + hours, formatted back as a time of day (wraps at midnight)
AddHoursToTime(t, halfhours) == (t + halfhours) % HalfHoursPerDay

\* python slice s[:-n] for n > 0
DropLast(s, n) == SubSeq(s, 1, IF Len(s) - n > 0 THEN Len(s) - n ELSE 0)

Session(day, start_time, hh) ==
    [day |-> day, start_time |-> start_time,
     end_time |-> AddHoursToTime(start_time, hh), duration |-> hh]

\* two-session loops that walk the day pairs in their base order
SplitPatternsInBaseOrder(day_pairings, starts, hh) ==
    Flatten([p \in 1..Len(base_day_pairings) |->
        LET ok == SelectSeq(starts,
                     LAMBDA t : AddHoursToTime(t, hh) \in Range(time_slots))
        IN [i \in 1..Len(ok) |->
              << Session(base_day_pairings[p][1], ok[i], hh),
                 Session(base_day_pairings[p][2], ok[i], hh) >>]])

\* the candidate patterns built by one of the three two-session loops
SplitPatterns(day_pairings, starts, hh) ==
    Flatten([p \in 1..Len(day_pairings) |->
        LET ok == SelectSeq(starts,
                     LAMBDA t : AddHoursToTime(t, hh) \in Range(time_slots))
        IN [i \in 1..Len(ok) |->
              << Session(day_pairings[p][1], ok[i], hh),
                 Session(day_pairings[p][2], ok[i], hh) >>]])

\* a generator whose two-session loops drop the last four start slots whatever
\* the length of a session
GetTimePatternsCuttingFour(hours, component_type, counter) ==
    LET rotation == counter % 3
        day_pairings == SubSeq(base_day_pairings, rotation + 1, 3)
                        \o SubSeq(base_day_pairings, 1, rotation)
        should_split == (component_type = "Lab" /\ hours >= 2)
                        \/ (hours > 2 /\ hours <= 4)
    IN IF hours <= 2 /\ ~should_split
       THEN Flatten([d \in 1..Len(days) |->
               LET ok == SelectSeq(DropLast(time_slots, 4),
                            LAMBDA t : AddHoursToTime(t, 2 * hours) \in Range(time_slots))
               IN [i \in 1..Len(ok) |-> << Session(days[d], ok[i], 2 * hours) >>]])
       ELSE SplitPatterns(day_pairings, DropLast(time_slots, 4),
                          IF hours = 2 /\ component_type = "Lab" THEN 2 ELSE hours)

GetTimePatterns(hours, component_type, counter) ==
    LET rotation == counter % 3
        day_pairings == SubSeq(base_day_pairings, rotation + 1, 3)
                        \o SubSeq(base_day_pairings, 1, rotation)
        should_split == (component_type = "Lab" /\ hours >= 2)
                        \/ (hours > 2 /\ hours <= 4)
        slots_needed == hours
    IN IF hours <= 2 /\ ~should_split
       THEN Flatten([d \in 1..Len(days) |->
               LET ok == SelectSeq(DropLast(time_slots, 4),
                            LAMBDA t : AddHoursToTime(t, 2 * hours) \in Range(time_slots))
               IN [i \in 1..Len(ok) |-> << Session(days[d], ok[i], 2 * hours) >>]])
       ELSE IF hours = 2 /\ component_type = "Lab"
       THEN SplitPatterns(day_pairings, DropLast(time_slots, 2), 2)
       ELSE SplitPatterns(day_pairings,
                DropLast(time_slots, IF slots_needed > 0 THEN slots_needed ELSE 1),
                hours)

(***************************************************************************)
(* Conflict model.                                                         *)
(***************************************************************************)
\* an overlap test that only asks whether the first period ends after the
\* second starts
TimesOverlapOneSided(start1, end1, start2, end2) ==
    ~(end1 <= start2)

\* _times_overlap: the four "%H:%M" strings are parsed to times of day, here
\* half-hour numbers
TimesOverlap(start1, end1, start2, end2) ==
    ~(end1 <= start2 \/ end2 <= start1)

\* one ledger lookup of _can_assign_pattern: the sessions booked for name on day
Booked(ledger, name, day) ==
    IF day \in DOMAIN ledger[name] THEN ledger[name][day] ELSE <<>>

SessionFree(ledger, name, session) ==
    \A i \in 1..Len(Booked(ledger, name, session.day)) :
        ~TimesOverlap(session.start_time, session.end_time,
                      Booked(ledger, name, session.day)[i].start_time,
                      Booked(ledger, name, session.day)[i].end_time)

\* a gate that forgets to look the room up
CanAssignIgnoringRoom(pattern, faculty_name, room_name, section_name, st, allow_conflicts) ==
    allow_conflicts
    \/ \A i \in 1..Len(pattern) :
          /\ SessionFree(st.faculty_schedule, faculty_name, pattern[i])
          /\ SessionFree(st.section_schedule, section_name, pattern[i])

\* a gate that checks the ledgers even when conflicts are allowed
CanAssignNeverForced(pattern, faculty_name, room_name, section_name, st, allow_conflicts) ==
    \A i \in 1..Len(pattern) :
        /\ SessionFree(st.faculty_schedule, faculty_name, pattern[i])
        /\ SessionFree(st.room_schedule, room_name, pattern[i])
        /\ SessionFree(st.section_schedule, section_name, pattern[i])

\* a gate that looks at the first session of the pattern only
CanAssignFirstSessionOnly(pattern, faculty_name, room_name, section_name, st, allow_conflicts) ==
    allow_conflicts
    \/ \A i \in 1..(IF Len(pattern) > 0 THEN 1 ELSE 0) :
          /\ SessionFree(st.faculty_schedule, faculty_name, pattern[i])
          /\ SessionFree(st.room_schedule, room_name, pattern[i])
          /\ SessionFree(st.section_schedule, section_name, pattern[i])

CanAssignPattern(pattern, faculty_name, room_name, section_name, st, allow_conflicts) ==
    allow_conflicts
    \/ \A i \in 1..Len(pattern) :
          /\ SessionFree(st.faculty_schedule, faculty_name, pattern[i])
          /\ SessionFree(st.room_schedule, room_name, pattern[i])
          /\ SessionFree(st.section_schedule, section_name, pattern[i])

(***************************************************************************)
(* record: _make_assignment (greedy) and _make_assignment_backtrack.       *)
(* st is the run state the two methods mutate: the output list, the three  *)
(* ledgers and the engine's day_pairing_counter.                           *)
(***************************************************************************)
ScheduleEntry(session, course_row, section_row, faculty_name, room_name, component_type) ==
    [course_code |-> course_row.course_code,
     program |-> section_row.program,
     year_level |-> section_row.year_level,
     term |-> section_row.term,
     section |-> section_row.section_name,
     day |-> session.day,
     start_time |-> session.start_time,
     end_time |-> session.end_time,
     room |-> room_name,
     faculty |-> faculty_name,
     course_type |-> component_type]

SessionInfo(session, course_row, section_row) ==
    [start_time |-> session.start_time,
     end_time |-> session.end_time,
     course |-> course_row.course_code,
     section |-> section_row.section_name]

LedgerAppend(ledger, name, day, info) ==
    [ledger EXCEPT ![name] = DictSet(@, day, Booked(ledger, name, day) \o <<info>>)]

\* the body of the "for session in pattern" loop shared by both record methods
RECURSIVE RecordSessions(_, _, _, _, _, _, _)
RecordSessions(st, pattern, course_row, section_row, faculty_name, room_name, component_type) ==
    IF pattern = <<>> THEN st
    ELSE LET session == Head(pattern)
             info == SessionInfo(session, course_row, section_row)
             next == [st EXCEPT
                 !.schedule_list = Append(@, ScheduleEntry(session, course_row, section_row,
                                                faculty_name, room_name, component_type)),
                 !.faculty_schedule = LedgerAppend(@, faculty_name, session.day, info),
                 !.room_schedule = LedgerAppend(@, room_name, session.day, info),
                 !.section_schedule =
                     LedgerAppend(@, section_row.section_name, session.day, info)]
         IN RecordSessions(next, Tail(pattern), course_row, section_row,
                           faculty_name, room_name, component_type)

\* a record that moves the counter on only for patterns of several sessions
MakeAssignmentCountingSplits(st, pattern, course_row, section_row, faculty_name, room_name, component_type) ==
    [RecordSessions(st, pattern, course_row, section_row, faculty_name, room_name,
                    component_type)
        EXCEPT !.day_pairing_counter = IF Len(pattern) > 1 THEN @ + 1 ELSE @]

MakeAssignment(st, pattern, course_row, section_row, faculty_name, room_name, component_type) ==
    [RecordSessions(st, pattern, course_row, section_row, faculty_name, room_name,
                    component_type)
        EXCEPT !.day_pairing_counter = @ + 1]

(***************************************************************************)
(* Input tables the model explores.  Section names repeat across terms:    *)
(* generate_sections names a section program + year + letter, so the       *)
(* section tables it builds from enrollments of several terms hold the     *)
(* same name once per term.                                                *)
(***************************************************************************)
\* a course so long that it has one start slot on each of the three day pairs
LongHours == Len(time_slots) - 1

Course(code, type, hours, term) ==
    [course_code |-> code, program |-> "BSCS", year_level |-> 1, term |-> term,
     course_type |-> type, hours_per_week |-> hours]

Catalog ==
    << Course("C1", "Lecture", 2, 1),
       Course("C2", "Lecture", 3, 1),
       Course("C3", "Lab", 2, 1),
       Course("C4", "Both", 6, 1),
       Course("C5", "Lecture", 2, 2),
       Course("C6", "Lecture", LongHours, 1),
       Course("C7", "Lecture", 2, 1) >>

RECURSIVE PickRows(_, _, _)
PickRows(table, chosen, i) ==
    IF i > Len(table) THEN <<>>
    ELSE (IF i \in chosen THEN <<table[i]>> ELSE <<>>) \o PickRows(table, chosen, i + 1)

\* a course of both types whose two sessions fill half a day each
HalfDayHours == (Len(time_slots) - 2) \div 2

\* A table on which the first choices of a search lead to a dead end: two
\* sections and one teacher leave the long course a day pair per section only
\* if both sections take the half-day course on the same pair, one after the
\* other.
TightTable ==
    << Course("C6", "Lecture", LongHours, 1),
       Course("C8", "Both", HalfDayHours, 1) >>

CourseTables ==
    {PickRows(Catalog, chosen, 1) :
        chosen \in {c \in SUBSET (1..Len(Catalog)) : Cardinality(c) \in 1..MaxCourses}}
    \cup {TightTable}

Room(name, type) == [room_name |-> name, room_type |-> type]

Section(name, term) ==
    [section_name |-> name, program |-> "BSCS", year_level |-> 1, term |-> term]

\* The room, faculty and section tables explored together: a scarce setting
\* without a Lab room, two sections competing for one teacher, the setting of
\* the repository's conflict test with a Lab room added, one section name
\* enrolled in two terms, and two sections sharing a single room.
Environments ==
    { [rooms |-> << Room("R1", "Lecture") >>,
       faculty |-> << "F1" >>,
       sections |-> << Section("S1", 1) >>],
      [rooms |-> << Room("R1", "Lecture"), Room("L1", "Lab") >>,
       faculty |-> << "F1" >>,
       sections |-> << Section("S1", 1), Section("S2", 1) >>],
      [rooms |-> << Room("R1", "Lecture"), Room("R2", "Lecture"), Room("L1", "Lab") >>,
       faculty |-> << "F1", "F2" >>,
       sections |-> << Section("S1", 1) >>],
      [rooms |-> << Room("R1", "Lecture"), Room("R2", "Lecture"), Room("L1", "Lab") >>,
       faculty |-> << "F1", "F2" >>,
       sections |-> << Section("S1", 1), Section("S1", 2) >>],
      [rooms |-> << Room("R1", "Lecture") >>,
       faculty |-> << "F1", "F2" >>,
       sections |-> << Section("S1", 1), Section("S2", 1) >>] }

RoomTables == {e.rooms : e \in Environments}

FacultyTables == {e.faculty : e \in Environments}

Algorithms == {"greedy", "backtracking", "constraint satisfaction"}

DefaultMaxIterations == 1000

MaxIterationsChoices == {1, DefaultMaxIterations}

(***************************************************************************)
(* Greedy assigner.                                                        *)
(***************************************************************************)
\* 'lab' in course_type.lower() / 'lecture' in course_type.lower(), for the
\* three course types of the data model
ContainsLab(course_type) == course_type = "Lab"
ContainsLecture(course_type) == course_type = "Lecture"

\* a room type that does not depend on the course
RequiredRoomTypeAlwaysLecture(course_row) == "Lecture"

RequiredRoomType(course_row) ==
    IF ContainsLab(course_row.course_type) THEN "Lab" ELSE "Lecture"

RoomsOfType(rooms_df, room_type) ==
    SelectSeq(rooms_df, LAMBDA r : r.room_type = room_type)

\* _find_suitable_faculty: every faculty member
FindSuitableFaculty(faculty_df, course_row) == faculty_df

\* the rows of courses_to_schedule matching the section's program, year and term
SectionCourses(courses_to_schedule, section_row) ==
    SelectSeq(courses_to_schedule,
        LAMBDA c : /\ c.program = section_row.program
                   /\ c.year_level = section_row.year_level
                   /\ c.term = section_row.term)

\* loops nested the other way round: rooms outermost, patterns innermost
ComboPatternInnermost(k, time_patterns, suitable_faculty, suitable_rooms) ==
    [pattern |-> time_patterns[(k % Len(time_patterns)) + 1],
     faculty |-> suitable_faculty[((k \div Len(time_patterns)) % Len(suitable_faculty)) + 1],
     room |-> suitable_rooms[(k \div (Len(time_patterns) * Len(suitable_faculty))) + 1].room_name]

\* the k-th combination (k = 0, 1, ...) of _schedule_course_component's three
\* nested loops: patterns outermost, then faculty, rooms innermost
Combo(k, time_patterns, suitable_faculty, suitable_rooms) ==
    [pattern |-> time_patterns[(k \div (Len(suitable_faculty) * Len(suitable_rooms))) + 1],
     faculty |-> suitable_faculty[((k \div Len(suitable_rooms)) % Len(suitable_faculty)) + 1],
     room |-> suitable_rooms[(k % Len(suitable_rooms)) + 1].room_name]

\* every combination of the three nested loops, in loop order
CombinationList(time_patterns, suitable_faculty, suitable_rooms) ==
    [k \in 1..(Len(time_patterns) * Len(suitable_faculty) * Len(suitable_rooms)) |->
        Combo(k - 1, time_patterns, suitable_faculty, suitable_rooms)] \o <<>>

\* The combination lists of every (hours, component type, rotation, faculty,
\* rooms) the explored tables can ask for, computed once: the patterns depend
\* on the counter only through counter % 3.
MemoHours ==
    UNION {{row.hours_per_week, row.hours_per_week \div 2,
            row.hours_per_week - (row.hours_per_week \div 2)} :
              row \in Range(Catalog \o TightTable)}

MemoRooms == {RoomsOfType(rooms_df, room_type) :
                 rooms_df \in RoomTables, room_type \in {"Lecture", "Lab"}}

combination_memo ==
    [key \in MemoHours \X {"Lecture", "Lab"} \X (0..2) \X FacultyTables \X MemoRooms |->
        CombinationList(GetTimePatterns(key[1], key[2], key[3]), key[4], key[5])]
    @@ EmptyDict

\* the combinations of _get_time_patterns(hours, component_type) x faculty x rooms
Combinations(hours, component_type, counter, suitable_faculty, suitable_rooms) ==
    combination_memo[<<hours, component_type, counter % 3, suitable_faculty,
                       suitable_rooms>>]

\* a loop that gives up after its first combination
FirstFitFirstOnly(st, combinations, section_name, allow_conflicts) ==
    IF combinations # <<>>
       /\ CanAssignPattern(combinations[1].pattern, combinations[1].faculty,
                           combinations[1].room, section_name, st, allow_conflicts)
    THEN 0 ELSE -1

\* the number of the first combination that passes _can_assign_pattern; -1 when
\* the loops end without one
FirstFit(st, combinations, section_name, allow_conflicts) ==
    LET n == Len(combinations)
        Passes(k) ==
            CanAssignPattern(combinations[k + 1].pattern, combinations[k + 1].faculty,
                             combinations[k + 1].room, section_name, st, allow_conflicts)
    IN IF \E k \in 0..(n - 1) : Passes(k)
       THEN CHOOSE k \in 0..(n - 1) : Passes(k) /\ \A j \in 0..(k - 1) : ~Passes(j)
       ELSE -1

\* a component scheduler that moves the counter on even when nothing fits
ScheduleCourseComponentCountingAttempts(st, course_row, section_row, component_type, hours, suitable_faculty, suitable_rooms, allow_conflicts) ==
    LET combinations == Combinations(hours, component_type, st.day_pairing_counter,
                                     suitable_faculty, suitable_rooms)
        first == FirstFit(st, combinations, section_row.section_name, allow_conflicts)
    IN IF first < 0
       THEN [ok |-> FALSE,
             st |-> [st EXCEPT !.day_pairing_counter = @ + 1]]
       ELSE [ok |-> TRUE,
             st |-> MakeAssignment(st, combinations[first + 1].pattern, course_row,
                                   section_row, combinations[first + 1].faculty,
                                   combinations[first + 1].room, component_type)]

\* _schedule_course_component: [ok, st]
ScheduleCourseComponent(st, course_row, section_row, component_type, hours, suitable_faculty, suitable_rooms, allow_conflicts) ==
    LET combinations == Combinations(hours, component_type, st.day_pairing_counter,
                                     suitable_faculty, suitable_rooms)
        first == FirstFit(st, combinations, section_row.section_name, allow_conflicts)
    IN IF first < 0 THEN [ok |-> FALSE, st |-> st]
       ELSE [ok |-> TRUE,
             st |-> MakeAssignment(st, combinations[first + 1].pattern, course_row,
                                   section_row, combinations[first + 1].faculty,
                                   combinations[first + 1].room, component_type)]

\* _schedule_lecture_lab_course: [ok, st]
ScheduleLectureLabCourse(st, course_row, section_row, rooms_df, suitable_faculty, allow_conflicts) ==
    LET hours_per_week == course_row.hours_per_week
        lecture_hours == hours_per_week \div 2
        lab_hours == hours_per_week - lecture_hours
        lecture == ScheduleCourseComponent(st, course_row, section_row, "Lecture",
                       lecture_hours, suitable_faculty, RoomsOfType(rooms_df, "Lecture"),
                       allow_conflicts)
        lab == ScheduleCourseComponent(lecture.st, course_row, section_row, "Lab",
                       lab_hours, suitable_faculty, RoomsOfType(rooms_df, "Lab"),
                       allow_conflicts)
    IN IF ~lecture.ok /\ ~allow_conflicts THEN [ok |-> FALSE, st |-> lecture.st]
       ELSE [ok |-> lecture.ok /\ lab.ok, st |-> lab.st]

\* _schedule_single_type_course: [ok, st]
ScheduleSingleTypeCourse(st, course_row, section_row, suitable_faculty, suitable_rooms, allow_conflicts) ==
    ScheduleCourseComponent(st, course_row, section_row,
        IF ContainsLecture(course_row.course_type) THEN "Lecture" ELSE "Lab",
        course_row.hours_per_week, suitable_faculty, suitable_rooms, allow_conflicts)

\* _assign_course_to_section: [ok, st]
AssignCourseToSection(st, course_row, section_row, rooms_df, faculty_df, allow_conflicts) ==
    LET suitable_faculty == FindSuitableFaculty(faculty_df, course_row)
        suitable_rooms == RoomsOfType(rooms_df, RequiredRoomType(course_row))
    IN IF suitable_faculty = <<>> \/ suitable_rooms = <<>>
       THEN [ok |-> FALSE, st |-> st]
       ELSE IF course_row.course_type = "Both"
       THEN ScheduleLectureLabCourse(st, course_row, section_row, rooms_df,
                                     suitable_faculty, allow_conflicts)
       ELSE ScheduleSingleTypeCourse(st, course_row, section_row, suitable_faculty,
                                     suitable_rooms, allow_conflicts)

(***************************************************************************)
(* Backtracking assigner.                                                  *)
(***************************************************************************)
\* a complexity that leaves the weekly hours out
ComplexityWithoutHours(assignment) ==
    (IF ContainsLab(assignment.course.course_type) \/ assignment.course.course_type = "Both"
     THEN 10 ELSE 0)
    + (IF assignment.course.course_type = "Both" THEN 5 ELSE 0)

CalculateConstraintComplexity(assignment) ==
    (IF ContainsLab(assignment.course.course_type) \/ assignment.course.course_type = "Both"
     THEN 10 ELSE 0)
    + assignment.course.hours_per_week
    + (IF assignment.course.course_type = "Both" THEN 5 ELSE 0)

\* the (course, section) obligations in the order the two loops collect them
Obligations(courses_df, sections_df) ==
    Flatten([s \in 1..Len(sections_df) |->
        LET section_courses == SectionCourses(courses_df, sections_df[s])
        IN [c \in 1..Len(section_courses) |->
               [course |-> section_courses[c], section |-> sections_df[s]]]])

\* The calls the model explores.  Greedy does not read max_iterations, so it is
\* called with the default; a budget below the default is explored on the
\* inputs whose search stays short (one faculty member, a long course first);
\* the CSP solver is explored on up to MaxCspVariables variables.
ExploredCall(alg, maxit, courses_df, faculty_df, sections_df) ==
    /\ maxit < DefaultMaxIterations =>
          /\ alg # "greedy"
          /\ Len(faculty_df) = 1
          /\ \E i \in 1..Len(courses_df) : courses_df[i].hours_per_week >= LongHours
    /\ alg = "constraint satisfaction" =>
          Len(Obligations(courses_df, sections_df)) <= MaxCspVariables

\* assignments.sort(key=complexity, reverse=True)
SortedAssignments(courses_df, sections_df) ==
    LET collected == Obligations(courses_df, sections_df)
        keyed == [i \in 1..Len(collected) |->
                     CalculateConstraintComplexity(collected[i])] \o <<>>
    IN SortDescending(collected, keyed, 0, SeqMax(keyed))

\* a preference without the Saturday penalty
PreferenceWithoutSaturday(assignment_option) ==
    assignment_option.pattern[1].start_time \div 2

AssignmentPreference(assignment_option) ==
    (assignment_option.pattern[1].start_time \div 2)
    + (IF \E i \in 1..Len(assignment_option.pattern) :
             assignment_option.pattern[i].day = "Saturday"
       THEN 20 ELSE 0)

\* the candidate combinations of an obligation in backtracking and in CSP:
\* _get_time_patterns(hours_per_week), component_type left at its default
ObligationCombinations(course_row, rooms_df, faculty_df, counter) ==
    Combinations(course_row.hours_per_week, "Lecture", counter,
                 FindSuitableFaculty(faculty_df, course_row),
                 RoomsOfType(rooms_df, RequiredRoomType(course_row)))

\* the option with combination number k of an obligation's three nested loops
Option(k, course_row, rooms_df, faculty_df, counter) ==
    ObligationCombinations(course_row, rooms_df, faculty_df, counter)[k + 1]

\* _get_possible_assignments, each option given by its combination number: the
\* options that pass the conflict check, in loop order, then sorted by preference
PossibleCombos(st, course_row, section_row, rooms_df, faculty_df, allow) ==
    LET combinations == ObligationCombinations(course_row, rooms_df, faculty_df,
                                               st.day_pairing_counter)
        possible == SelectSeq([k \in 1..Len(combinations) |-> k - 1], LAMBDA k :
                        CanAssignPattern(combinations[k + 1].pattern,
                                         combinations[k + 1].faculty,
                                         combinations[k + 1].room,
                                         section_row.section_name, st, allow))
        keyed == [i \in 1..Len(possible) |->
                     AssignmentPreference(combinations[possible[i] + 1])] \o <<>>
    IN SortAscending(possible, keyed, start_hour, SeqMax(keyed))

\* _get_possible_assignments: the options themselves
GetPossibleAssignments(st, course_row, section_row, rooms_df, faculty_df, allow) ==
    LET combos == PossibleCombos(st, course_row, section_row, rooms_df, faculty_df, allow)
    IN [i \in 1..Len(combos) |->
           Option(combos[i], course_row, rooms_df, faculty_df, st.day_pairing_counter)]

BacktrackComponentType(course_row) ==
    IF course_row.course_type = "Both" THEN "Both"
    ELSE IF ContainsLecture(course_row.course_type) THEN "Lecture" ELSE "Lab"

\* a record that leaves the counter where it was
MakeAssignmentBacktrackKeepingCounter(st, assignment_option, course_row, section_row) ==
    RecordSessions(st, assignment_option.pattern, course_row, section_row,
                   assignment_option.faculty, assignment_option.room,
                   BacktrackComponentType(course_row))

\* _make_assignment_backtrack: the new run state; the positions of the entries
\* it appended (assignment_data) are AssignmentData below
MakeAssignmentBacktrack(st, assignment_option, course_row, section_row) ==
    [RecordSessions(st, assignment_option.pattern, course_row, section_row,
                    assignment_option.faculty, assignment_option.room,
                    BacktrackComponentType(course_row))
        EXCEPT !.day_pairing_counter = @ + 1]

\* assignment_data: the positions (from 1) of the entries appended for the option
AssignmentData(st, assignment_option) ==
    [i \in 1..Len(assignment_option.pattern) |-> Len(st.schedule_list) + i]

\* schedule_list.pop(idx) for idx in reversed(assignment_data), when in range
RECURSIVE PopIndices(_, _)
PopIndices(list, assignment_data) ==
    IF assignment_data = <<>> THEN list
    ELSE LET idx == assignment_data[Len(assignment_data)]
             popped == IF idx <= Len(list)
                       THEN SubSeq(list, 1, idx - 1) \o SubSeq(list, idx + 1, Len(list))
                       ELSE list
         IN PopIndices(popped, SubSeq(assignment_data, 1, Len(assignment_data) - 1))

\* the removal from one ledger for one session of the pattern
LedgerRemove(ledger, name, day, course_code, section_name, match_section) ==
    IF day \in DOMAIN ledger[name]
    THEN LET kept == SelectSeq(ledger[name][day], LAMBDA s :
                         ~(s.course = course_code
                           /\ (match_section => s.section = section_name)))
         IN [ledger EXCEPT ![name] =
                IF kept = <<>> THEN DictDel(@, day) ELSE DictSet(@, day, kept)]
    ELSE ledger

RECURSIVE UnrecordSessions(_, _, _, _, _)
UnrecordSessions(st, pattern, assignment_option, course_row, section_row) ==
    IF pattern = <<>> THEN st
    ELSE LET day == Head(pattern).day
             course_code == course_row.course_code
             section_name == section_row.section_name
             next == [st EXCEPT
                 !.faculty_schedule =
                     LedgerRemove(@, assignment_option.faculty, day,
                                  course_code, section_name, TRUE),
                 !.room_schedule =
                     LedgerRemove(@, assignment_option.room, day,
                                  course_code, section_name, TRUE),
                 !.section_schedule =
                     LedgerRemove(@, section_name, day,
                                  course_code, section_name, FALSE)]
         IN UnrecordSessions(next, Tail(pattern), assignment_option, course_row, section_row)

\* an undo that leaves the counter where the record put it
UndoKeepingCounter(st, assignment_option, assignment_data, course_row, section_row) ==
    UnrecordSessions([st EXCEPT !.schedule_list = PopIndices(@, assignment_data)],
                     assignment_option.pattern, assignment_option, course_row, section_row)

\* _undo_assignment_backtrack, for an option that carries its assignment_data
UndoAssignmentBacktrack(st, assignment_option, assignment_data, course_row, section_row) ==
    [UnrecordSessions([st EXCEPT !.schedule_list = PopIndices(@, assignment_data)],
                      assignment_option.pattern, assignment_option, course_row, section_row)
        EXCEPT !.day_pairing_counter = @ - 1]

(***************************************************************************)
(* CSP solver.  A variable is named course_code + "_" + section_name,      *)
(* represented by the pair of the two names.  A domain value is held as    *)
(* the combination number of its (pattern, faculty, room) in the loops of  *)
(* _generate_csp_domain; CspValue gives the value itself.                  *)
(***************************************************************************)
VarName(course_row, section_row) == <<course_row.course_code, section_row.section_name>>

\* variables, in the order the two loops create them
CspVariables(courses_df, sections_df) ==
    LET collected == Obligations(courses_df, sections_df)
    IN [i \in 1..Len(collected) |-> VarName(collected[i].course, collected[i].section)]

\* the (course, section) rows carried by the values of each variable; a later
\* obligation of the same name replaces an earlier one, as domains[var_name] does
CspRows(courses_df, sections_df) ==
    LET collected == Obligations(courses_df, sections_df)
        names == {VarName(collected[i].course, collected[i].section) :
                     i \in 1..Len(collected)}
        Last(v) == CHOOSE i \in 1..Len(collected) :
                      /\ VarName(collected[i].course, collected[i].section) = v
                      /\ \A j \in (i + 1)..Len(collected) :
                            VarName(collected[j].course, collected[j].section) # v
    IN [v \in names |-> collected[Last(v)]]

\* _generate_csp_domain: every combination, in loop order
GenerateCspDomain(course_row, rooms_df, faculty_df, counter) ==
    [k \in 1..Len(ObligationCombinations(course_row, rooms_df, faculty_df, counter)) |->
        k - 1] \o <<>>

\* for each variable, its rows and the combinations the numbers in its domain
\* stand for
AllValues(rows, rooms_df, faculty_df, counter) ==
    [v \in DOMAIN rows |->
        [course |-> rows[v].course,
         section |-> rows[v].section,
         combinations |-> ObligationCombinations(rows[v].course, rooms_df, faculty_df,
                                                 counter)]]
    @@ EmptyDict

\* the value with combination number k of variable v
CspValue(v, k, vals) ==
    LET rows == vals[v]
        combination == rows.combinations[k + 1]
    IN [pattern |-> combination.pattern,
        faculty |-> combination.faculty,
        room |-> combination.room,
        course |-> rows.course,
        section |-> rows.section]

\* _generate_csp_constraints: one constraint per pair i < j
GenerateCspConstraints(vs) ==
    Flatten([i \in 1..Len(vs) |->
        LET later == SelectSeq([j \in 1..Len(vs) |-> j], LAMBDA j : i < j)
        IN [m \in 1..Len(later) |-> [var1 |-> vs[i], var2 |-> vs[later[m]]]]])

TimePatternsOverlap(pattern1, pattern2) ==
    \E i \in 1..Len(pattern1), j \in 1..Len(pattern2) :
        /\ pattern1[i].day = pattern2[j].day
        /\ TimesOverlap(pattern1[i].start_time, pattern1[i].end_time,
                        pattern2[j].start_time, pattern2[j].end_time)

\* a compatibility test that leaves the section out
ValuesSatisfyIgnoringSection(value1, value2) ==
    /\ ~(value1.faculty = value2.faculty
         /\ TimePatternsOverlap(value1.pattern, value2.pattern))
    /\ ~(value1.room = value2.room
         /\ TimePatternsOverlap(value1.pattern, value2.pattern))

ValuesSatisfyConstraint(value1, value2) ==
    LET overlap == TimePatternsOverlap(value1.pattern, value2.pattern)
    IN /\ ~(value1.faculty = value2.faculty /\ overlap)
       /\ ~(value1.room = value2.room /\ overlap)
       /\ ~(value1.section.section_name = value2.section.section_name /\ overlap)

\* a revision that keeps a value only when every value of var2 is compatible
ReviseDomainAgainstAll(var1, var2, doms, vals) ==
    SelectSeq(doms[var1], LAMBDA k1 :
        \A i \in 1..Len(doms[var2]) :
            ValuesSatisfyConstraint(CspValue(var1, k1, vals), CspValue(var2, doms[var2][i], vals)))

\* _revise_domain: the domain of var1 after the revision against var2
ReviseDomain(var1, var2, doms, vals) ==
    SelectSeq(doms[var1], LAMBDA k1 :
        \E i \in 1..Len(doms[var2]) :
            ValuesSatisfyConstraint(CspValue(var1, k1, vals), CspValue(var2, doms[var2][i], vals)))

\* a worklist that is never refilled
NeighborArcsNone(var1, var2, constraints) == <<>>

\* the arcs _apply_arc_consistency appends after revising (var1, var2)
NeighborArcs(var1, var2, constraints) ==
    Flatten([c \in 1..Len(constraints) |->
        IF constraints[c].var1 = var1 /\ constraints[c].var2 # var2
        THEN << <<constraints[c].var2, var1>> >>
        ELSE IF constraints[c].var2 = var1 /\ constraints[c].var1 # var2
        THEN << <<constraints[c].var1, var1>> >>
        ELSE <<>>])

\* the initial worklist of _apply_arc_consistency
InitialArcs(constraints) ==
    [c \in 1..Len(constraints) |-> <<constraints[c].var1, constraints[c].var2>>]
    \o [c \in 1..Len(constraints) |-> <<constraints[c].var2, constraints[c].var1>>]

\* the partial assignment is a list of [var, value] in insertion order
Assigned(assignment) == {assignment[i].var : i \in 1..Len(assignment)}

\* _assignment_consistent
AssignmentConsistent(value, assignment, vals) ==
    \A i \in 1..Len(assignment) :
        ValuesSatisfyConstraint(value, CspValue(assignment[i].var, assignment[i].value, vals))

\* _count_conflicts
CountConflicts(value, assignment, vals) ==
    Cardinality({i \in 1..Len(assignment) :
        ~ValuesSatisfyConstraint(value, CspValue(assignment[i].var, assignment[i].value, vals))})

\* the variable min(unassigned_vars, key=len(domains[v])) selects: the first of
\* the smallest domains
SelectUnassignedVariable(vs, doms, assignment) ==
    LET unassigned_vars == SelectSeq(vs, LAMBDA v : v \notin Assigned(assignment))
        first == CHOOSE i \in 1..Len(unassigned_vars) :
                    /\ \A j \in 1..Len(unassigned_vars) :
                          Len(doms[unassigned_vars[i]]) <= Len(doms[unassigned_vars[j]])
                    /\ \A j \in 1..(i - 1) :
                          Len(doms[unassigned_vars[j]]) > Len(doms[unassigned_vars[i]])
    IN unassigned_vars[first]

\* sorted(domains[var], key=_count_conflicts)
OrderDomainValues(var, doms, assignment, vals) ==
    LET keyed == [i \in 1..Len(doms[var]) |->
                     CountConflicts(CspValue(var, doms[var][i], vals),
                                    assignment, vals)] \o <<>>
    IN SortAscending(doms[var], keyed, 0, Len(assignment))

\* a forward check that infers nothing
ForwardCheckNothing(var, value, vs, doms, assignment, vals) ==
    [empty |-> FALSE, removed |-> EmptyDict]

\* _forward_check: [empty, removed]; empty stands for the None result, removed
\* maps each pruned variable to the values to remove from its domain
ForwardCheck(var, value, vs, doms, assignment, vals) ==
    LET others == {v \in Range(vs) : v # var /\ v \notin Assigned(assignment)}
        Removed(v) == SelectSeq(doms[v], LAMBDA k :
                          ~ValuesSatisfyConstraint(value, CspValue(v, k, vals)))
        removed == [v \in others |-> Removed(v)] @@ EmptyDict
        pruned == {v \in others : removed[v] # <<>>}
    IN [empty |-> \E v \in pruned : Len(removed[v]) = Len(doms[v]),
        removed |-> [v \in pruned |-> removed[v]] @@ EmptyDict]

\* the domains after the removals of an inference have been applied
ApplyInference(doms, removed) ==
    [v \in DOMAIN doms |->
        IF v \in DOMAIN removed
        THEN LET removed_values == Range(removed[v])
             IN SelectSeq(doms[v], LAMBDA k : k \notin removed_values)
        ELSE doms[v]]

\* a conversion without the override that tags the entries of a Both course Both
ConvertCspSolutionWithoutBothTag(solution, vals) ==
    Flatten([i \in 1..Len(solution) |->
        LET value == CspValue(solution[i].var, solution[i].value, vals)
        IN [s \in 1..Len(value.pattern) |->
               ScheduleEntry(value.pattern[s], value.course, value.section,
                             value.faculty, value.room,
                             IF ContainsLecture(value.course.course_type)
                             THEN "Lecture" ELSE "Lab")]])

\* _convert_csp_solution_to_schedule
ConvertCspSolutionToSchedule(solution, vals) ==
    Flatten([i \in 1..Len(solution) |->
        LET value == CspValue(solution[i].var, solution[i].value, vals)
        IN [s \in 1..Len(value.pattern) |->
               ScheduleEntry(value.pattern[s], value.course, value.section,
                             value.faculty, value.room,
                             BacktrackComponentType(value.course))]])

(***************************************************************************)
(* The external auditor: utils/helpers.py.                                 *)
(***************************************************************************)
\* an overlap test that counts intervals touching at a boundary
times_overlap_closed(start1, end1, start2, end2) ==
    ~(end1 < start2 \/ end2 < start1)

\* times_overlap: the four "%H:%M" strings are parsed to times of day, here the
\* half-hour numbers the entries already hold
times_overlap(start1, end1, start2, end2) ==
    ~(end1 <= start2 \/ end2 <= start1)

\* schedule_df['room'].unique(): the rooms in order of first appearance
UniqueRooms(schedule_df) ==
    LET first == SelectSeq([i \in 1..Len(schedule_df) |-> i], LAMBDA i :
                     \A j \in 1..(i - 1) : schedule_df[j].room # schedule_df[i].room)
    IN [k \in 1..Len(first) |-> schedule_df[first[k]].room]

\* detect_scheduling_conflicts: one report per pair idx1 < idx2 of rows of one
\* room that are on the same day at overlapping times
detect_scheduling_conflicts(schedule_df) ==
    LET unique == UniqueRooms(schedule_df)
    IN Flatten([r \in 1..Len(unique) |->
           LET room_schedule == SelectSeq([i \in 1..Len(schedule_df) |-> i],
                                    LAMBDA i : schedule_df[i].room = unique[r])
               pairs == Flatten([a \in 1..Len(room_schedule) |->
                            [b \in 1..Len(room_schedule) |->
                                <<room_schedule[a], room_schedule[b]>>]])
               flagged == SelectSeq(pairs, LAMBDA pr :
                            /\ pr[1] < pr[2]
                            /\ schedule_df[pr[1]].day = schedule_df[pr[2]].day
                            /\ times_overlap(schedule_df[pr[1]].start_time,
                                             schedule_df[pr[1]].end_time,
                                             schedule_df[pr[2]].start_time,
                                             schedule_df[pr[2]].end_time))
           IN [k \in 1..Len(flagged) |->
                  [conflict_type |-> "Room",
                   resource |-> unique[r],
                   day |-> schedule_df[flagged[k][1]].day,
                   course1 |-> <<schedule_df[flagged[k][1]].course_code,
                                 schedule_df[flagged[k][1]].section>>,
                   course2 |-> <<schedule_df[flagged[k][2]].course_code,
                                 schedule_df[flagged[k][2]].section>>]]])

(***************************************************************************)
(* State.                                                                  *)
(***************************************************************************)
VARIABLES
    loaded, courses, rooms, faculty, sections,   \* the engine's tables
    day_pairing_counter,                         \* the engine's rotation counter
    algorithm, max_iterations, allow_conflicts,  \* arguments of the running call
    courses_to_schedule,
    schedule_list, faculty_schedule, room_schedule, section_schedule,
    g_allow, g_sec, g_todo,                      \* _greedy_scheduling's frame
    assignments, bt_stack,                       \* backtracking: obligations, call stack
    variables, domains, queue,                   \* CSP: variables, domains, AC-3 worklist
    assignment, csp_stack,                       \* CSP: partial assignment, call stack
    search_domains,                              \* CSP: the domains the search was entered with
    initial_domains,                             \* CSP: the domains as generated
    error,                                       \* the exception the call raised, if any
    pc,                                          \* where the call is
    fellback,                                    \* the call took the greedy fallback
    log,                                         \* what the call has printed
    runs, results, entry_counter,                \* calls made, what they returned
    budget_exceeded,                             \* the running search hit max_iterations
    steps,                                       \* options tried by the running search
    gen_hours, gen_type, gen_counter,            \* a direct call of _get_time_patterns
    gen_called, gen_patterns,                    \* and what it returned
    ov_start1, ov_end1, ov_start2, ov_end2,      \* a direct call of an overlap test,
    ov_called, ov_result,                        \* which one, and what it returned
    gate_args, gate_st,                          \* a direct call of _can_assign_pattern
    gate_called, gate_result, gate_after,        \* its result and the ledgers after it
    compat_value1, compat_value2,                \* a direct call of _values_satisfy_constraint
    compat_called, compat_result                 \* and what it returned

engineVars == <<loaded, courses, rooms, faculty, sections>>
callVars == <<algorithm, max_iterations, allow_conflicts, courses_to_schedule>>
ledgerVars == <<schedule_list, faculty_schedule, room_schedule, section_schedule>>
greedyVars == <<g_allow, g_sec, g_todo>>
btVars == <<assignments, bt_stack>>
cspVars == <<variables, domains, queue, assignment, csp_stack, search_domains, initial_domains>>
historyVars == <<runs, results, entry_counter, budget_exceeded, steps>>
generatorVars == <<gen_hours, gen_type, gen_counter, gen_called, gen_patterns>>
overlapVars == <<ov_start1, ov_end1, ov_start2, ov_end2, ov_called, ov_result>>
gateVars == <<gate_args, gate_st, gate_called, gate_result, gate_after>>
compatVars == <<compat_value1, compat_value2, compat_called, compat_result>>
directVars == <<generatorVars, overlapVars, gateVars, compatVars>>

vars == <<engineVars, day_pairing_counter, callVars, ledgerVars, greedyVars, btVars,
          cspVars, error, pc, fellback, log, historyVars, directVars>>

St == [schedule_list |-> schedule_list,
       faculty_schedule |-> faculty_schedule,
       room_schedule |-> room_schedule,
       section_schedule |-> section_schedule,
       day_pairing_counter |-> day_pairing_counter]

SetSt(st) ==
    /\ schedule_list' = st.schedule_list
    /\ faculty_schedule' = st.faculty_schedule
    /\ room_schedule' = st.room_schedule
    /\ section_schedule' = st.section_schedule
    /\ day_pairing_counter' = st.day_pairing_counter

\* the engine after ClassScheduler(), no call under way
EngineInit ==
    /\ loaded = FALSE
    /\ courses = <<>> /\ rooms = <<>> /\ faculty = <<>> /\ sections = <<>>
    /\ day_pairing_counter = 0
    /\ algorithm = "greedy" /\ max_iterations = DefaultMaxIterations
    /\ allow_conflicts = FALSE
    /\ courses_to_schedule = <<>>
    /\ schedule_list = <<>>
    /\ faculty_schedule = EmptyDict /\ room_schedule = EmptyDict
    /\ section_schedule = EmptyDict
    /\ g_allow = FALSE /\ g_sec = 0 /\ g_todo = <<>>
    /\ assignments = <<>> /\ bt_stack = <<>>
    /\ variables = <<>> /\ domains = EmptyDict /\ queue = <<>>
    /\ assignment = <<>> /\ csp_stack = <<>> /\ search_domains = EmptyDict
    /\ initial_domains = EmptyDict
    /\ error = "none"
    /\ pc = "idle"
    /\ fellback = FALSE
    /\ log = <<>>
    /\ runs = 0 /\ results = <<>> /\ entry_counter = 0 /\ steps = 0
    /\ budget_exceeded = FALSE

\* no direct call of _get_time_patterns under way
GeneratorIdle ==
    /\ gen_hours = 0 /\ gen_type = "Lecture" /\ gen_counter = 0
    /\ gen_called = FALSE /\ gen_patterns = <<>>

\* no direct call of the overlap tests under way
OverlapIdle ==
    /\ ov_start1 = 0 /\ ov_end1 = 0 /\ ov_start2 = 0 /\ ov_end2 = 0
    /\ ov_called = "none" /\ ov_result = FALSE

\* no direct call of _can_assign_pattern under way
GateIdle ==
    /\ gate_args = <<>> /\ gate_st = <<>>
    /\ gate_called = FALSE /\ gate_result = FALSE /\ gate_after = <<>>

\* no direct call of _values_satisfy_constraint under way
CompatIdle ==
    /\ compat_value1 = <<>> /\ compat_value2 = <<>>
    /\ compat_called = FALSE /\ compat_result = FALSE

Init ==
    /\ EngineInit
    /\ gen_hours = 0 /\ gen_type = "Lecture" /\ gen_counter = 0
    /\ gen_called = FALSE /\ gen_patterns = <<>>
    /\ OverlapIdle /\ GateIdle /\ CompatIdle

\* load_data(courses_df, rooms_df, faculty_df, sections_df)
LoadData ==
    /\ pc = "idle"
    /\ ~loaded
    /\ \E courses_df \in CourseTables, e \in Environments :
          /\ courses' = courses_df
          /\ rooms' = e.rooms
          /\ faculty' = e.faculty
          /\ sections' = e.sections
    /\ loaded' = TRUE
    /\ UNCHANGED <<directVars, day_pairing_counter, callVars, ledgerVars, greedyVars, btVars, cspVars, error,
                   pc, fellback, log, historyVars>>

\* the head of _greedy_scheduling: a fresh output list and fresh ledgers
EnterGreedy(allow) ==
    /\ schedule_list' = <<>>
    /\ faculty_schedule' = [f \in Range(faculty) |-> EmptyDict]
    /\ room_schedule' = [r \in {rooms[i].room_name : i \in 1..Len(rooms)} |-> EmptyDict]
    /\ section_schedule' = EmptyDict
    /\ g_allow' = allow
    /\ g_sec' = 0
    /\ g_todo' = <<>>
    /\ pc' = "greedy"

RoomNames == {rooms[i].room_name : i \in 1..Len(rooms)}
SectionNames == {sections[i].section_name : i \in 1..Len(sections)}

\* the head of _backtracking_scheduling: fresh ledgers, the sorted obligations
EnterBacktracking ==
    /\ schedule_list' = <<>>
    /\ faculty_schedule' = [f \in Range(faculty) |-> EmptyDict]
    /\ room_schedule' = [r \in RoomNames |-> EmptyDict]
    /\ section_schedule' = [s \in SectionNames |-> EmptyDict]
    /\ assignments' = SortedAssignments(courses_to_schedule', sections)
    /\ bt_stack' = <<>>
    /\ pc' = "bt_call"

\* the head of _constraint_satisfaction_scheduling and of _solve_csp: variables,
\* domains and, unless conflicts are allowed, the AC-3 worklist
EnterCsp(allow) ==
    /\ schedule_list' = <<>>
    /\ faculty_schedule' = EmptyDict
    /\ room_schedule' = EmptyDict
    /\ section_schedule' = EmptyDict
    /\ variables' = CspVariables(courses_to_schedule', sections)
    /\ domains' = LET rows == CspRows(courses_to_schedule', sections)
                  IN [v \in DOMAIN rows |->
                         GenerateCspDomain(rows[v].course, rooms, faculty,
                                           day_pairing_counter)]
    /\ queue' = IF allow THEN <<>>
                ELSE InitialArcs(GenerateCspConstraints(variables'))
    /\ assignment' = <<>>
    /\ csp_stack' = <<>>
    /\ search_domains' = IF allow THEN domains' ELSE EmptyDict
    /\ initial_domains' = domains'
    /\ pc' = IF allow THEN "csp_call" ELSE "ac3"

\* a check of the tables that never finds one missing
TablesNeverMissing == FALSE

\* any(data is None for data in [courses, rooms, faculty, sections]): load_data
\* is the only writer of the four tables and sets them together
TablesMissing == ~loaded

\* generate_schedule(algorithm, max_iterations, allow_conflicts), up to the call
\* of the selected algorithm; ValueError when the tables are not loaded
GenerateSchedule ==
    /\ pc \in {"idle", "done", "raised"}
    /\ runs < MaxRuns
    /\ \E alg \in Algorithms, maxit \in MaxIterationsChoices, allow \in BOOLEAN :
          /\ runs > 0 => (alg = algorithm /\ maxit = max_iterations
                          /\ allow = allow_conflicts)
          /\ ExploredCall(alg, maxit, courses, faculty, sections)
          /\ algorithm' = alg
          /\ max_iterations' = maxit
          /\ allow_conflicts' = allow
          /\ IF TablesMissing
             THEN /\ pc' = "raised"
                  /\ error' = "ValueError"
                  /\ UNCHANGED <<courses_to_schedule, ledgerVars, greedyVars, btVars,
                                 cspVars>>
             ELSE /\ courses_to_schedule' = courses
                  /\ error' = "none"
                  /\ CASE alg = "greedy" ->
                            EnterGreedy(allow) /\ UNCHANGED <<btVars, cspVars>>
                       [] alg = "backtracking" ->
                            EnterBacktracking /\ UNCHANGED <<greedyVars, cspVars>>
                       [] alg = "constraint satisfaction" ->
                            EnterCsp(allow) /\ UNCHANGED <<greedyVars, btVars>>
    /\ runs' = runs + 1
    /\ entry_counter' = day_pairing_counter
    /\ budget_exceeded' = FALSE
    /\ fellback' = FALSE
    /\ log' = <<>>
    /\ steps' = 0
    /\ UNCHANGED <<directVars, engineVars, day_pairing_counter, results>>

\* one iteration of "for section_row in sections": the section's ledger is
\* (re)created and its courses are selected
GreedyNextSection ==
    /\ pc = "greedy"
    /\ g_todo = <<>>
    /\ g_sec < Len(sections)
    /\ g_sec' = g_sec + 1
    /\ section_schedule' = DictSet(section_schedule, sections[g_sec + 1].section_name,
                                   EmptyDict)
    /\ g_todo' = SectionCourses(courses_to_schedule, sections[g_sec + 1])
    /\ UNCHANGED <<directVars, engineVars, day_pairing_counter, callVars, schedule_list,
                   faculty_schedule, room_schedule, g_allow, btVars, cspVars, error, pc, fellback, log,
                   historyVars>>

\* one iteration of "for course_row in section_courses"
GreedyAssignCourse ==
    /\ pc = "greedy"
    /\ g_todo # <<>>
    /\ LET course_row == Head(g_todo)
           section_row == sections[g_sec]
           assigned == AssignCourseToSection(St, course_row, section_row, rooms, faculty,
                                             g_allow)
       IN /\ SetSt(assigned.st)
          /\ log' = IF ~assigned.ok /\ ~g_allow
                    THEN Append(log, [course_code |-> course_row.course_code,
                                      section |-> section_row.section_name])
                    ELSE log
    /\ g_todo' = Tail(g_todo)
    /\ UNCHANGED <<directVars, engineVars, callVars, g_allow, g_sec, btVars, cspVars, error, pc, fellback,
                   historyVars>>

\* the end of _greedy_scheduling: the output list is returned as a DataFrame
GreedyReturn ==
    /\ pc = "greedy"
    /\ g_todo = <<>>
    /\ g_sec = Len(sections)
    /\ pc' = "done"
    /\ results' = Append(results, schedule_list)
    /\ UNCHANGED <<directVars, engineVars, day_pairing_counter, callVars, ledgerVars, greedyVars,
                   btVars, cspVars, error, fellback, log, runs, entry_counter,
                   budget_exceeded, steps>>

\* _backtrack_assign(index) is entered; index is the number of frames below it
BacktrackAssign ==
    /\ pc = "bt_call"
    /\ LET index == Len(bt_stack)
       IN IF index >= Len(assignments)
          THEN \* True is returned through every frame; the output list is returned
               /\ pc' = "done"
               /\ results' = Append(results, schedule_list)
               /\ UNCHANGED <<bt_stack, budget_exceeded>>
          ELSE IF Len(schedule_list) > max_iterations
          THEN /\ pc' = "bt_failed"
               /\ budget_exceeded' = TRUE
               /\ UNCHANGED <<bt_stack, results>>
          ELSE /\ bt_stack' = Append(bt_stack,
                      [options |-> PossibleCombos(St,
                                       assignments[index + 1].course,
                                       assignments[index + 1].section,
                                       rooms, faculty, allow_conflicts),
                       counter |-> day_pairing_counter,
                       pos |-> 1,
                       assignment_data |-> <<>>])
               /\ pc' = "bt_loop"
               /\ UNCHANGED <<results, budget_exceeded>>
    /\ UNCHANGED <<directVars, cspVars, error, engineVars, day_pairing_counter, callVars, ledgerVars, greedyVars,
                   assignments, fellback, log, runs, entry_counter, steps>>

\* A frame of _backtrack_assign holds possible_assignments as combination
\* numbers (options) with the counter value they were generated under; this is
\* the option the frame's loop is at.
FrameOption(index) ==
    Option(bt_stack[index].options[bt_stack[index].pos], assignments[index].course,
           rooms, faculty, bt_stack[index].counter)

\* the loop of the top frame takes its next option: record it, then recurse
BacktrackTry ==
    /\ pc = "bt_loop"
    /\ steps < MaxSearchSteps
    /\ steps' = steps + 1
    /\ LET index == Len(bt_stack)
           frame == bt_stack[index]
       IN /\ frame.pos <= Len(frame.options)
          /\ SetSt(MakeAssignmentBacktrack(St, FrameOption(index),
                       assignments[index].course, assignments[index].section))
          /\ bt_stack' = [bt_stack EXCEPT ![index].assignment_data =
                             AssignmentData(St, FrameOption(index))]
    /\ pc' = "bt_call"
    /\ UNCHANGED <<directVars, cspVars, error, engineVars, callVars, greedyVars, assignments, fellback, log,
                   runs, results, entry_counter,
                   budget_exceeded>>

\* the recursive call returned False: undo the option, go on with the next one
BacktrackUndo ==
    /\ pc = "bt_failed"
    /\ bt_stack # <<>>
    /\ LET index == Len(bt_stack)
           frame == bt_stack[index]
       IN /\ SetSt(UndoAssignmentBacktrack(St, FrameOption(index),
                       frame.assignment_data,
                       assignments[index].course, assignments[index].section))
          /\ bt_stack' = [bt_stack EXCEPT ![index].pos = @ + 1]
    /\ pc' = "bt_loop"
    /\ UNCHANGED <<directVars, cspVars, error, engineVars, callVars, greedyVars, assignments, fellback, log,
                   historyVars>>

\* a search that gives up at the first dead end instead of backing up
BacktrackExhaustedGivingUp ==
    /\ pc = "bt_loop"
    /\ bt_stack[Len(bt_stack)].pos > Len(bt_stack[Len(bt_stack)].options)
    /\ bt_stack' = <<>>
    /\ pc' = "bt_failed"
    /\ UNCHANGED <<directVars, cspVars, error, engineVars, day_pairing_counter, callVars, ledgerVars, greedyVars,
                   assignments, fellback, log, historyVars>>

\* the loop of the top frame ran out of options: it returns False
BacktrackExhausted ==
    /\ pc = "bt_loop"
    /\ bt_stack[Len(bt_stack)].pos > Len(bt_stack[Len(bt_stack)].options)
    /\ bt_stack' = SubSeq(bt_stack, 1, Len(bt_stack) - 1)
    /\ pc' = "bt_failed"
    /\ UNCHANGED <<directVars, cspVars, error, engineVars, day_pairing_counter, callVars, ledgerVars, greedyVars,
                   assignments, fellback, log, historyVars>>

\* a fallback that hands the caller's allow_conflicts on to the greedy pass
BacktrackFallbackAsCalled ==
    /\ pc = "bt_failed"
    /\ bt_stack = <<>>
    /\ fellback' = TRUE
    /\ EnterGreedy(allow_conflicts)
    /\ UNCHANGED <<directVars, engineVars, day_pairing_counter, callVars, btVars, cspVars, error, log, historyVars>>

\* _backtracking_scheduling got False: greedy with conflicts allowed
BacktrackFallback ==
    /\ pc = "bt_failed"
    /\ bt_stack = <<>>
    /\ fellback' = TRUE
    /\ EnterGreedy(TRUE)
    /\ UNCHANGED <<directVars, engineVars, day_pairing_counter, callVars, btVars, cspVars, error, log, historyVars>>

\* the values the combination numbers in domains stand for
Values == AllValues(CspRows(courses_to_schedule, sections), rooms, faculty,
                    day_pairing_counter)

\* one iteration of the worklist loop of _apply_arc_consistency.  When a domain
\* is emptied the method returns {} and _solve_csp looks the first variable up
\* in it, which raises KeyError.
ArcConsistencyStep ==
    /\ pc = "ac3"
    /\ queue # <<>>
    /\ LET var1 == Head(queue)[1]
           var2 == Head(queue)[2]
           revised == ReviseDomain(var1, var2, domains, Values)
       IN IF revised = domains[var1]
          THEN /\ queue' = Tail(queue)
               /\ UNCHANGED <<domains, pc, error>>
          ELSE /\ domains' = [domains EXCEPT ![var1] = revised]
               /\ IF revised = <<>>
                  THEN /\ pc' = "raised"
                       /\ error' = "KeyError"
                       /\ queue' = Tail(queue)
                  ELSE /\ queue' = Tail(queue)
                              \o NeighborArcs(var1, var2,
                                              GenerateCspConstraints(variables))
                       /\ UNCHANGED <<pc, error>>
    /\ UNCHANGED <<directVars, engineVars, day_pairing_counter, callVars, ledgerVars, greedyVars,
                   btVars, variables, assignment, csp_stack, search_domains, initial_domains, fellback,
                   log, historyVars>>

\* the worklist is empty: _solve_csp tests for an empty domain, then searches
ArcConsistencyDone ==
    /\ pc = "ac3"
    /\ queue = <<>>
    /\ pc' = IF \E i \in 1..Len(variables) : domains[variables[i]] = <<>>
             THEN "csp_failed" ELSE "csp_call"
    /\ search_domains' = domains
    /\ UNCHANGED initial_domains
    /\ UNCHANGED <<directVars, engineVars, day_pairing_counter, callVars, ledgerVars, greedyVars,
                   btVars, variables, domains, queue, assignment, csp_stack, error,
                   fellback, log, historyVars>>

\* _csp_backtrack is entered
CspBacktrack ==
    /\ pc = "csp_call"
    /\ IF Len(assignment) = Len(variables)
       THEN \* the assignment is returned through every frame; an empty one is
            \* falsy, so the caller falls back
            IF assignment # <<>>
            THEN /\ schedule_list' = ConvertCspSolutionToSchedule(assignment, Values)
                 /\ pc' = "done"
                 /\ results' = Append(results, schedule_list')
                 /\ UNCHANGED <<csp_stack, budget_exceeded>>
            ELSE /\ pc' = "csp_failed"
                 /\ UNCHANGED <<schedule_list, results, csp_stack, budget_exceeded>>
       ELSE IF Len(assignment) > max_iterations
       THEN /\ pc' = "csp_failed"
            /\ budget_exceeded' = TRUE
            /\ UNCHANGED <<schedule_list, results, csp_stack>>
       ELSE LET var == SelectUnassignedVariable(variables, domains, assignment)
            IN /\ csp_stack' = Append(csp_stack,
                      [var |-> var,
                       domain_values |-> OrderDomainValues(var, domains, assignment,
                                                           Values),
                       pos |-> 1,
                       old_domains |-> EmptyDict])
               /\ pc' = "csp_loop"
               /\ UNCHANGED <<schedule_list, results, budget_exceeded>>
    /\ UNCHANGED <<directVars, engineVars, day_pairing_counter, callVars, faculty_schedule,
                   room_schedule, section_schedule, greedyVars, btVars, variables,
                   domains, queue, assignment, search_domains, initial_domains, error, fellback, log,
                   runs, entry_counter, steps>>

\* the loop of the top frame takes its next value: it is skipped when it is
\* inconsistent with the assignment or forward checking empties a domain;
\* otherwise the inference is applied and the search recurses
CspTry ==
    /\ pc = "csp_loop"
    /\ steps < MaxSearchSteps
    /\ steps' = steps + 1
    /\ LET depth == Len(csp_stack)
           frame == csp_stack[depth]
       IN /\ frame.pos <= Len(frame.domain_values)
          /\ LET vals == Values
                 k == frame.domain_values[frame.pos]
                 value == CspValue(frame.var, k, vals)
                 assigned == Append(assignment, [var |-> frame.var, value |-> k])
                 inference == ForwardCheck(frame.var, value, variables, domains,
                                           assigned, vals)
             IN IF (allow_conflicts \/ AssignmentConsistent(value, assignment, vals))
                   /\ (~inference.empty \/ allow_conflicts)
                THEN /\ assignment' = assigned
                     /\ domains' = IF inference.empty THEN domains
                                   ELSE ApplyInference(domains, inference.removed)
                     /\ csp_stack' = [csp_stack EXCEPT ![depth].old_domains =
                            IF inference.empty THEN EmptyDict
                            ELSE [v \in DOMAIN inference.removed |-> domains[v]]]
                     /\ pc' = "csp_call"
                ELSE /\ csp_stack' = [csp_stack EXCEPT ![depth].pos = @ + 1]
                     /\ UNCHANGED <<assignment, domains, pc>>
    /\ UNCHANGED <<directVars, engineVars, day_pairing_counter, callVars, ledgerVars, greedyVars,
                   btVars, variables, queue, search_domains, initial_domains, error, fellback, log, runs,
                   results, entry_counter, budget_exceeded>>

\* an undo that unassigns the variable and leaves the pruned domains as they are
CspUndoKeepingDomains ==
    /\ pc = "csp_failed"
    /\ csp_stack # <<>>
    /\ assignment' = SelectSeq(assignment,
                         LAMBDA a : a.var # csp_stack[Len(csp_stack)].var)
    /\ csp_stack' = [csp_stack EXCEPT ![Len(csp_stack)].pos = @ + 1]
    /\ pc' = "csp_loop"
    /\ UNCHANGED <<directVars, engineVars, day_pairing_counter, callVars, ledgerVars, greedyVars,
                   btVars, variables, domains, queue, search_domains, initial_domains, error, fellback,
                   log, historyVars>>

\* the recursive call returned None: restore the domains, unassign, go on
CspUndo ==
    /\ pc = "csp_failed"
    /\ csp_stack # <<>>
    /\ LET depth == Len(csp_stack)
           old_domains == csp_stack[depth].old_domains
       IN /\ domains' = [v \in DOMAIN domains |->
                            IF v \in DOMAIN old_domains THEN old_domains[v]
                            ELSE domains[v]]
          /\ assignment' = SelectSeq(assignment,
                               LAMBDA a : a.var # csp_stack[depth].var)
          /\ csp_stack' = [csp_stack EXCEPT ![depth].pos = @ + 1]
    /\ pc' = "csp_loop"
    /\ UNCHANGED <<directVars, engineVars, day_pairing_counter, callVars, ledgerVars, greedyVars,
                   btVars, variables, queue, search_domains, initial_domains, error, fellback, log,
                   historyVars>>

\* the loop of the top frame ran out of values: it returns None
CspExhausted ==
    /\ pc = "csp_loop"
    /\ csp_stack[Len(csp_stack)].pos > Len(csp_stack[Len(csp_stack)].domain_values)
    /\ csp_stack' = SubSeq(csp_stack, 1, Len(csp_stack) - 1)
    /\ pc' = "csp_failed"
    /\ UNCHANGED <<directVars, engineVars, day_pairing_counter, callVars, ledgerVars, greedyVars,
                   btVars, variables, domains, queue, assignment, search_domains, initial_domains, error,
                   fellback, log, historyVars>>

\* _constraint_satisfaction_scheduling got no solution: greedy with conflicts
\* allowed
CspFallback ==
    /\ pc = "csp_failed"
    /\ csp_stack = <<>>
    /\ fellback' = TRUE
    /\ EnterGreedy(TRUE)
    /\ UNCHANGED <<directVars, engineVars, day_pairing_counter, callVars, btVars, cspVars, error,
                   log, historyVars>>

Next ==
    \/ LoadData
    \/ GenerateSchedule
    \/ GreedyNextSection
    \/ GreedyAssignCourse
    \/ GreedyReturn
    \/ BacktrackAssign
    \/ BacktrackTry
    \/ BacktrackUndo
    \/ BacktrackExhausted
    \/ BacktrackFallback
    \/ ArcConsistencyStep
    \/ ArcConsistencyDone
    \/ CspBacktrack
    \/ CspTry
    \/ CspUndo
    \/ CspExhausted
    \/ CspFallback

Spec == Init /\ [][Next]_vars

(***************************************************************************)
(* The pattern generator on its own: _get_time_patterns(hours,             *)
(* component_type) called on an engine whose rotation counter stands at    *)
(* gen_counter.                                                            *)
(***************************************************************************)
ComponentTypes == {"Lecture", "Lab"}

GeneratorInit ==
    /\ EngineInit
    /\ gen_hours \in 0..MaxHours
    /\ gen_type \in ComponentTypes
    /\ gen_counter \in 0..MaxCounter
    /\ gen_called = FALSE /\ gen_patterns = <<>>
    /\ OverlapIdle /\ GateIdle /\ CompatIdle

CallGetTimePatterns ==
    /\ ~gen_called
    /\ gen_patterns' = GetTimePatterns(gen_hours, gen_type, gen_counter)
    /\ gen_called' = TRUE
    /\ UNCHANGED <<engineVars, day_pairing_counter, callVars, ledgerVars, greedyVars,
                   btVars, cspVars, error, pc, fellback, log, historyVars,
                   gen_hours, gen_type, gen_counter, overlapVars, gateVars, compatVars>>

GeneratorNext == CallGetTimePatterns

GeneratorSpec == GeneratorInit /\ [][GeneratorNext]_vars

(***************************************************************************)
(* The two overlap tests on their own: ClassScheduler._times_overlap and   *)
(* helpers.times_overlap called on four times of day.                      *)
(***************************************************************************)
OverlapInit ==
    /\ EngineInit /\ GeneratorIdle /\ GateIdle /\ CompatIdle
    /\ ov_start1 \in 0..MaxTime /\ ov_end1 \in 0..MaxTime
    /\ ov_start2 \in 0..MaxTime /\ ov_end2 \in 0..MaxTime
    /\ ov_called = "none" /\ ov_result = FALSE

CallTimesOverlap ==
    /\ ov_called = "none"
    /\ ov_result' = TimesOverlap(ov_start1, ov_end1, ov_start2, ov_end2)
    /\ ov_called' = "_times_overlap"
    /\ UNCHANGED <<engineVars, day_pairing_counter, callVars, ledgerVars, greedyVars,
                   btVars, cspVars, error, pc, fellback, log, historyVars,
                   generatorVars, gateVars, compatVars, ov_start1, ov_end1, ov_start2,
                   ov_end2>>

CallHelperTimesOverlap ==
    /\ ov_called = "none"
    /\ ov_result' = times_overlap(ov_start1, ov_end1, ov_start2, ov_end2)
    /\ ov_called' = "times_overlap"
    /\ UNCHANGED <<engineVars, day_pairing_counter, callVars, ledgerVars, greedyVars,
                   btVars, cspVars, error, pc, fellback, log, historyVars,
                   generatorVars, gateVars, compatVars, ov_start1, ov_end1, ov_start2,
                   ov_end2>>

OverlapNext == CallTimesOverlap \/ CallHelperTimesOverlap

OverlapSpec == OverlapInit /\ [][OverlapNext]_vars

(***************************************************************************)
(* The gate on its own: _can_assign_pattern called with a pattern, the     *)
(* names F1, R1 and S1, and three ledgers that hold a few sessions booked  *)
(* on Thursday under these names or under others.                          *)
(***************************************************************************)
GateDays == {"Monday", "Thursday"}

GateTimes == (2 * start_hour)..(2 * start_hour + MaxGateTime)

GateSessions ==
    {s \in {Session(day, t, hh) : day \in GateDays, t \in GateTimes,
                                  hh \in 1..MaxGateTime} : s.end_time \in GateTimes}

\* one session on one day, or the same period on Monday and on Thursday
GatePatterns ==
    {<<s>> : s \in GateSessions} \cup
    {<<s, [s EXCEPT !.day = "Thursday"]>> : s \in {x \in GateSessions : x.day = "Monday"}}

GateLedgerNames ==
    [faculty_schedule |-> {"F1", "F2"}, room_schedule |-> {"R1", "R2"},
     section_schedule |-> {"S1", "S2"}]

\* a Thursday session booked under a name of one of the three ledgers
GateBookings ==
    UNION {{[ledger |-> l, name |-> n, session |-> s] :
               n \in GateLedgerNames[l],
               s \in {x \in GateSessions : x.day = "Thursday"}} :
           l \in DOMAIN GateLedgerNames}

RECURSIVE GateBookingSets(_)
GateBookingSets(n) ==
    IF n = 0 THEN {{}}
    ELSE LET smaller == GateBookingSets(n - 1)
         IN smaller \cup {s \cup {b} : s \in smaller, b \in GateBookings}

\* the ledger of one kind after the bookings made under its names
RECURSIVE GateLedger(_, _)
GateLedger(kind, bookings) ==
    IF bookings = {} THEN [n \in GateLedgerNames[kind] |-> EmptyDict]
    ELSE LET b == CHOOSE x \in bookings : TRUE
             rest == GateLedger(kind, bookings \ {b})
         IN IF b.ledger = kind
            THEN LedgerAppend(rest, b.name, b.session.day,
                              [start_time |-> b.session.start_time,
                               end_time |-> b.session.end_time,
                               course |-> "C1", section |-> "S1"])
            ELSE rest

GateInit ==
    /\ EngineInit /\ GeneratorIdle /\ OverlapIdle /\ CompatIdle
    /\ \E pattern \in GatePatterns, allow \in BOOLEAN :
          gate_args = [pattern |-> pattern, faculty_name |-> "F1", room_name |-> "R1",
                       section_name |-> "S1", allow_conflicts |-> allow]
    /\ \E bookings \in GateBookingSets(MaxBooked) :
          gate_st = [faculty_schedule |-> GateLedger("faculty_schedule", bookings),
                     room_schedule |-> GateLedger("room_schedule", bookings),
                     section_schedule |-> GateLedger("section_schedule", bookings)]
    /\ gate_called = FALSE /\ gate_result = FALSE /\ gate_after = <<>>

\* the call reads the three ledgers and assigns to none of them
CallCanAssignPattern ==
    /\ ~gate_called
    /\ gate_result' = CanAssignPattern(gate_args.pattern, gate_args.faculty_name,
                                       gate_args.room_name, gate_args.section_name,
                                       gate_st, gate_args.allow_conflicts)
    /\ gate_after' = gate_st
    /\ gate_called' = TRUE
    /\ UNCHANGED <<engineVars, day_pairing_counter, callVars, ledgerVars, greedyVars,
                   btVars, cspVars, error, pc, fellback, log, historyVars,
                   generatorVars, overlapVars, compatVars, gate_args, gate_st>>

GateNext == CallCanAssignPattern

GateSpec == GateInit /\ [][GateNext]_vars

(***************************************************************************)
(* The CSP compatibility test on its own: _values_satisfy_constraint       *)
(* called on two domain values.                                            *)
(***************************************************************************)
\* domain values over the patterns of the gate, two teachers, two rooms and
\* two sections
CompatValues ==
    {[pattern |-> pattern, faculty |-> f, room |-> r,
      course |-> Catalog[1], section |-> Section(s, 1)] :
        pattern \in GatePatterns, f \in GateLedgerNames.faculty_schedule,
        r \in GateLedgerNames.room_schedule, s \in GateLedgerNames.section_schedule}

CompatInit ==
    /\ EngineInit /\ GeneratorIdle /\ OverlapIdle /\ GateIdle
    /\ compat_value1 \in CompatValues /\ compat_value2 \in CompatValues
    /\ compat_called = FALSE /\ compat_result = FALSE

CallValuesSatisfyConstraint ==
    /\ ~compat_called
    /\ compat_result' = ValuesSatisfyConstraint(compat_value1, compat_value2)
    /\ compat_called' = TRUE
    /\ UNCHANGED <<engineVars, day_pairing_counter, callVars, ledgerVars, greedyVars,
                   btVars, cspVars, error, pc, fellback, log, historyVars,
                   generatorVars, overlapVars, gateVars, compat_value1, compat_value2>>

CompatNext == CallValuesSatisfyConstraint

CompatSpec == CompatInit /\ [][CompatNext]_vars

(***************************************************************************)
(* AC-3 on its own: _apply_arc_consistency called on the variables of one  *)
(* long course and a few sections that share a teacher and a room, the     *)
(* domain of each variable holding some of the values                      *)
(* _generate_csp_domain builds for it.                                     *)
(***************************************************************************)
ArcSectionNames == <<"S1", "S2", "S3", "S4", "S5">>

ArcCourses == << Course("C6", "Lecture", LongHours, 1) >>

ArcRooms == << Room("R1", "Lecture") >>

ArcFaculty == << "F1" >>

ArcSections == [i \in 1..MaxArcSections |-> Section(ArcSectionNames[i], 1)]

\* the lists that keep some elements of a list, in its order
RECURSIVE SubLists(_)
SubLists(list) ==
    IF list = <<>> THEN {<<>>}
    ELSE LET rest == SubLists(Tail(list))
         IN rest \cup {<<Head(list)>> \o r : r \in rest}

\* _solve_csp is about to call _apply_arc_consistency
ArcInit ==
    /\ GeneratorIdle /\ OverlapIdle /\ GateIdle /\ CompatIdle
    /\ loaded = TRUE
    /\ courses = ArcCourses /\ rooms = ArcRooms /\ faculty = ArcFaculty
    /\ sections = ArcSections
    /\ day_pairing_counter = 0
    /\ algorithm = "constraint satisfaction" /\ max_iterations = DefaultMaxIterations
    /\ allow_conflicts = FALSE
    /\ courses_to_schedule = ArcCourses
    /\ schedule_list = <<>>
    /\ faculty_schedule = EmptyDict /\ room_schedule = EmptyDict
    /\ section_schedule = EmptyDict
    /\ g_allow = FALSE /\ g_sec = 0 /\ g_todo = <<>>
    /\ assignments = <<>> /\ bt_stack = <<>>
    /\ variables = CspVariables(ArcCourses, ArcSections)
    /\ domains \in [Range(variables) ->
                       SubLists(GenerateCspDomain(ArcCourses[1], ArcRooms, ArcFaculty, 0))]
    /\ initial_domains = domains
    /\ queue = InitialArcs(GenerateCspConstraints(variables))
    /\ assignment = <<>> /\ csp_stack = <<>> /\ search_domains = EmptyDict
    /\ error = "none"
    /\ pc = "ac3"
    /\ fellback = FALSE
    /\ log = <<>>
    /\ runs = 1 /\ results = <<>> /\ entry_counter = 0 /\ steps = 0
    /\ budget_exceeded = FALSE

ArcNext == ArcConsistencyStep \/ ArcConsistencyDone

Ac3Spec == ArcInit /\ [][ArcNext]_vars

(***************************************************************************)
(* Properties.                                                             *)
(***************************************************************************)
Returned == pc = "done"

EntriesOverlap(e1, e2) ==
    /\ e1.day = e2.day
    /\ TimesOverlap(e1.start_time, e1.end_time, e2.start_time, e2.end_time)

\* no two sessions booked under one name and day of a ledger overlap
LedgerOverlapFree(ledger) ==
    \A name \in DOMAIN ledger : \A day \in DOMAIN ledger[name] :
        \A i, j \in 1..Len(ledger[name][day]) :
            i < j => ~TimesOverlap(ledger[name][day][i].start_time,
                                   ledger[name][day][i].end_time,
                                   ledger[name][day][j].start_time,
                                   ledger[name][day][j].end_time)

\* no two entries of a schedule are in one room at overlapping times
RoomOverlapFree(schedule) ==
    \A i, j \in 1..Len(schedule) :
        (i < j /\ schedule[i].room = schedule[j].room)
            => ~EntriesOverlap(schedule[i], schedule[j])

\* C1: a schedule returned by a run with conflicts disallowed that did not take
\* the fallback has no two entries that share the room, the faculty or the
\* section name and overlap on a day, whichever of the three algorithms ran.
C1_NoOverlapInAcceptedSchedule ==
    (Returned /\ ~allow_conflicts /\ ~fellback) =>
        \A i, j \in 1..Len(schedule_list) :
            (/\ i < j
             /\ \/ schedule_list[i].room = schedule_list[j].room
                \/ schedule_list[i].faculty = schedule_list[j].faculty
                \/ schedule_list[i].section = schedule_list[j].section)
                => ~EntriesOverlap(schedule_list[i], schedule_list[j])

\* C2 as stated: with allow_conflicts = False, on every path including the
\* fallback, no ledger holds two overlapping sessions for a name and day and
\* the returned schedule has no two overlapping entries in one room.
C2_NoOverlapOnEveryPath ==
    (runs > 0 /\ ~allow_conflicts) =>
        /\ LedgerOverlapFree(faculty_schedule)
        /\ LedgerOverlapFree(room_schedule)
        /\ LedgerOverlapFree(section_schedule)
        /\ Returned => RoomOverlapFree(schedule_list)

\* C2 amended: with allow_conflicts = False, as long as the call has not taken
\* the fallback, no ledger holds two overlapping sessions for a name and day
\* and a schedule it returns has no two overlapping entries in one room.
C2_NoOverlapOnStrictPath ==
    (runs > 0 /\ ~allow_conflicts /\ ~fellback) =>
        /\ LedgerOverlapFree(faculty_schedule)
        /\ LedgerOverlapFree(room_schedule)
        /\ LedgerOverlapFree(section_schedule)
        /\ Returned => RoomOverlapFree(schedule_list)

\* a strict run returned a schedule that uses one room twice on one day
C2_Witness ==
    /\ Returned /\ ~allow_conflicts /\ ~fellback
    /\ \E i, j \in 1..Len(schedule_list) :
          /\ i < j
          /\ schedule_list[i].room = schedule_list[j].room
          /\ schedule_list[i].day = schedule_list[j].day

\* C3: on every schedule greedy returns with conflicts disallowed the auditor
\* reports no conflict.
C3_AuditorAgreesWithGreedy ==
    (Returned /\ algorithm = "greedy" /\ ~allow_conflicts) =>
        detect_scheduling_conflicts(schedule_list) = <<>>

\* greedy returned a strict schedule with two entries back to back in one room
C3_Witness ==
    /\ Returned /\ algorithm = "greedy" /\ ~allow_conflicts
    /\ \E i, j \in 1..Len(schedule_list) :
          /\ schedule_list[i].room = schedule_list[j].room
          /\ schedule_list[i].day = schedule_list[j].day
          /\ schedule_list[i].end_time = schedule_list[j].start_time

\* the row of the loaded course table with a given code
CourseOf(course_code) ==
    courses[CHOOSE i \in 1..Len(courses) : courses[i].course_code = course_code]

RoomTypeOf(room_name) ==
    rooms[CHOOSE i \in 1..Len(rooms) : rooms[i].room_name = room_name].room_type

\* the entries of a schedule for one (course, section name) under one tag
EntriesFor(schedule, course_code, section_name, tag) ==
    SelectSeq(schedule, LAMBDA e : /\ e.course_code = course_code
                                   /\ e.section = section_name
                                   /\ e.course_type = tag)

\* the half-hours a list of entries spans
RECURSIVE HalfHours(_)
HalfHours(entries) ==
    IF entries = <<>> THEN 0
    ELSE Head(entries).end_time - Head(entries).start_time + HalfHours(Tail(entries))

\* C4: in a schedule placed by greedy or by backtracking every entry of a Both
\* course is tagged Lecture or Lab and is in a room of that type, the Lecture
\* entries of a (course, section) span floor(H/2) hours and its Lab entries
\* H - floor(H/2) hours.
C4_BothIsSplit ==
    (Returned /\ algorithm \in {"greedy", "backtracking"} /\ ~fellback) =>
        \A i \in 1..Len(schedule_list) :
            LET e == schedule_list[i]
                H == CourseOf(e.course_code).hours_per_week
            IN CourseOf(e.course_code).course_type = "Both" =>
                 /\ e.course_type \in {"Lecture", "Lab"}
                 /\ RoomTypeOf(e.room) = e.course_type
                 /\ HalfHours(EntriesFor(schedule_list, e.course_code, e.section,
                                         e.course_type))
                       = 2 * (IF e.course_type = "Lecture"
                              THEN H \div 2 ELSE H - (H \div 2))

\* C5: in a schedule greedy returns with conflicts disallowed, a Both course
\* has for a section either entries of its Lecture component and of its Lab
\* component or no entry at all.
C5_BothIsAllOrNothing ==
    (Returned /\ algorithm = "greedy" /\ ~allow_conflicts) =>
        \A c \in 1..Len(courses) : \A s \in SectionNames :
            courses[c].course_type = "Both" =>
                (EntriesFor(schedule_list, courses[c].course_code, s, "Lecture") = <<>>
                 <=> EntriesFor(schedule_list, courses[c].course_code, s, "Lab") = <<>>)

\* C6: runs of generate_schedule with the same tables and the same arguments on
\* one engine return identical schedules.
C6_RunsReturnTheSameSchedule ==
    \A i, j \in 1..Len(results) : results[i] = results[j]

\* C7: every generate_schedule invocation starts with the rotation counter at
\* its initial value 0.
C7_InvocationStartsAtZero ==
    runs > 0 => entry_counter = 0

\* C8: in every state of a backtracking run where a frame is about to try its
\* options, recording any of the options and undoing it at once gives back the
\* output list, the three ledgers and the rotation counter exactly.
C8_UndoRestoresRecord ==
    pc = "bt_loop" =>
        LET index == Len(bt_stack)
            frame == bt_stack[index]
            course_row == assignments[index].course
            section_row == assignments[index].section
            pool == ObligationCombinations(course_row, rooms, faculty,
                                           day_pairing_counter)
            before == St
        IN \A p \in 1..Len(frame.options) :
              LET assignment_option == pool[frame.options[p] + 1]
              IN UndoAssignmentBacktrack(
                     MakeAssignmentBacktrack(before, assignment_option, course_row,
                                             section_row),
                     assignment_option, AssignmentData(before, assignment_option),
                     course_row, section_row) = before

\* an option was undone and the frame goes on with another option, whose
\* teacher already has a session of another obligation booked on its first day
C8_Witness ==
    /\ pc = "bt_loop"
    /\ LET index == Len(bt_stack)
           frame == bt_stack[index]
       IN /\ frame.pos > 1
          /\ frame.pos <= Len(frame.options)
          /\ LET assignment_option == FrameOption(index)
             IN Booked(faculty_schedule, assignment_option.faculty,
                       assignment_option.pattern[1].day) # <<>>

\* a step in which greedy or backtracking records: it appends entries
RecordStep ==
    /\ pc \in {"greedy", "bt_loop"}
    /\ Len(schedule_list') > Len(schedule_list)

\* the entries a step appended
Appended == SubSeq(schedule_list', Len(schedule_list) + 1, Len(schedule_list'))

\* the records of a step, one per component tag of the appended entries (greedy
\* records the two components of a Both course in one step)
RecordedTags == {Appended[i].course_type : i \in 1..Len(Appended)}

\* C9 as stated: record increments the rotation counter by 1 when the pattern
\* has more than one session and leaves it unchanged for a one-session pattern.
C9_CounterCountsMultiSessionRecords ==
    [][RecordStep =>
         day_pairing_counter' = day_pairing_counter
             + Cardinality({tag \in RecordedTags :
                   Len(SelectSeq(Appended, LAMBDA e : e.course_type = tag)) > 1})]_vars

\* C9 amended: record increments the rotation counter by exactly 1 for every
\* pattern it records, whatever the number of sessions.
C9_CounterCountsRecords ==
    [][RecordStep =>
         day_pairing_counter' = day_pairing_counter + Cardinality(RecordedTags)]_vars

\* a first call has recorded one pattern of a single session, and the counter
\* stands at 1
C9_Witness ==
    /\ runs = 1 /\ pc \in {"greedy", "bt_call"}
    /\ Len(schedule_list) = 1
    /\ day_pairing_counter = 1

\* the obligation (course, section) has entries in the schedule
Covered(schedule, obligation) ==
    \E i \in 1..Len(schedule) :
        /\ schedule[i].course_code = obligation.course.course_code
        /\ schedule[i].section = obligation.section.section_name

\* the schedule holds, for the obligation, all sessions of exactly one of its
\* candidate patterns
CoveredByOnePattern(schedule, obligation) ==
    LET mine == SelectSeq(schedule, LAMBDA e :
                    /\ e.course_code = obligation.course.course_code
                    /\ e.section = obligation.section.section_name)
        candidates == GetTimePatterns(obligation.course.hours_per_week, "Lecture", 0)
    IN \E k \in 1..Len(candidates) :
          /\ Len(mine) = Len(candidates[k])
          /\ \A s \in 1..Len(mine) :
                /\ mine[s].day = candidates[k][s].day
                /\ mine[s].start_time = candidates[k][s].start_time
                /\ mine[s].end_time = candidates[k][s].end_time

\* C10: a schedule backtracking or CSP returns without falling back holds one
\* candidate pattern of every obligation, and no obligation is missing from a
\* returned schedule without having been reported as skipped.
C10_NoObligationSilentlyDropped ==
    (Returned /\ algorithm \in {"backtracking", "constraint satisfaction"}) =>
        LET obligations == Obligations(courses_to_schedule, sections)
        IN \A o \in 1..Len(obligations) :
              /\ ~fellback => CoveredByOnePattern(schedule_list, obligations[o])
              /\ \/ Covered(schedule_list, obligations[o])
                 \/ \E l \in 1..Len(log) :
                       /\ log[l].course_code = obligations[o].course.course_code
                       /\ log[l].section = obligations[o].section.section_name

\* C11: in a CSP run with conflicts disallowed nothing is raised: when arc
\* consistency empties a domain the solver reports no solution and the call
\* goes on to the greedy pass with conflicts permitted.
C11_EmptiedDomainFallsBack ==
    (loaded /\ runs > 0 /\ algorithm = "constraint satisfaction" /\ ~allow_conflicts) =>
        /\ error = "none"
        /\ pc # "raised"

\* the components greedy schedules for a course, with their hours
ComponentsOf(course_row) ==
    IF course_row.course_type = "Both"
    THEN <<[component_type |-> "Lecture", hours |-> course_row.hours_per_week \div 2],
           [component_type |-> "Lab",
            hours |-> course_row.hours_per_week - (course_row.hours_per_week \div 2)]>>
    ELSE <<[component_type |-> IF ContainsLecture(course_row.course_type)
                               THEN "Lecture" ELSE "Lab",
            hours |-> course_row.hours_per_week]>>

\* the pools the greedy pass draws from for a course are all non-empty: the
\* faculty, the rooms of the required type and of each component, the patterns
PoolsNonEmpty(course_row) ==
    /\ FindSuitableFaculty(faculty, course_row) # <<>>
    /\ RoomsOfType(rooms, RequiredRoomType(course_row)) # <<>>
    /\ \A c \in 1..Len(ComponentsOf(course_row)) :
          /\ RoomsOfType(rooms, ComponentsOf(course_row)[c].component_type) # <<>>
          /\ GetTimePatterns(ComponentsOf(course_row)[c].hours,
                             ComponentsOf(course_row)[c].component_type, 0) # <<>>

\* C12: the schedule returned by the fallback greedy pass (conflicts forcibly
\* permitted) holds, for every obligation whose faculty pool, room pools and
\* pattern sets are non-empty, every component with its full hours; the
\* schedule is then non-empty.
C12_FallbackPlacesEverything ==
    (Returned /\ fellback) =>
        LET obligations == Obligations(courses_to_schedule, sections)
        IN \A o \in 1..Len(obligations) :
              PoolsNonEmpty(obligations[o].course) =>
                 /\ schedule_list # <<>>
                 /\ \A c \in 1..Len(ComponentsOf(obligations[o].course)) :
                       HalfHours(EntriesFor(schedule_list,
                                   obligations[o].course.course_code,
                                   obligations[o].section.section_name,
                                   ComponentsOf(obligations[o].course)[c].component_type))
                         = 2 * ComponentsOf(obligations[o].course)[c].hours

\* a fallback returned a schedule with two overlapping entries in one room,
\* every obligation having non-empty pools
C12_Witness ==
    /\ Returned /\ fellback
    /\ \E i, j \in 1..Len(schedule_list) :
          /\ i < j
          /\ schedule_list[i].room = schedule_list[j].room
          /\ EntriesOverlap(schedule_list[i], schedule_list[j])
    /\ \A o \in 1..Len(Obligations(courses_to_schedule, sections)) :
          PoolsNonEmpty(Obligations(courses_to_schedule, sections)[o].course)

\* C13: a search that hit the iteration budget raises nothing: the branch
\* fails, and a call that then returns without another branch having succeeded
\* returns the schedule of the greedy pass with conflicts permitted.
C13_BudgetIsASoftFailure ==
    budget_exceeded =>
        /\ error = "none"
        /\ pc \in {"bt_failed", "bt_loop", "bt_call", "csp_failed", "csp_loop",
                   "csp_call", "greedy", "done"}
        /\ pc = "greedy" => (fellback /\ g_allow)
        /\ Returned => (Len(results) = runs /\ results[runs] = schedule_list)

\* a backtracking call hit the budget, fell back and returned a schedule
C13_Witness ==
    /\ budget_exceeded /\ fellback /\ Returned
    /\ algorithm = "backtracking"
    /\ schedule_list # <<>>

\* C14: a generate_schedule call made while the tables are not loaded raises
\* ValueError at once: no algorithm is entered and the ledgers, the output
\* list, the rotation counter and the frames of the algorithms are unchanged.
C14_UnloadedCallFailsFast ==
    [][(runs' = runs + 1 /\ ~loaded) =>
          /\ pc' = "raised"
          /\ error' = "ValueError"
          /\ UNCHANGED <<engineVars, day_pairing_counter, ledgerVars, greedyVars,
                         btVars, cspVars, results>>]_vars

\* a call was made on an engine without tables and has raised
C14_Witness ==
    /\ ~loaded /\ runs > 0
    /\ pc = "raised" /\ error = "ValueError"
    /\ schedule_list = <<>> /\ day_pairing_counter = 0

\* a call is under way
Running ==
    pc \in {"greedy", "bt_call", "bt_loop", "bt_failed", "ac3", "csp_call", "csp_loop",
            "csp_failed"}

\* a is before b in the lexicographic order of integer sequences of one length
LexLess(a, b) ==
    \E i \in 1..Len(a) : a[i] < b[i] /\ \A j \in 1..(i - 1) : a[j] = b[j]

\* the stage a call is in: arc consistency, search, greedy pass, ended
Stage ==
    CASE pc = "ac3" -> 1
      [] pc \in {"bt_call", "bt_loop", "bt_failed", "csp_call", "csp_loop", "csp_failed"} -> 2
      [] pc = "greedy" -> 3
      [] OTHER -> 4

\* how far a depth-first search is: whether the root call has failed, then for
\* every depth the option its frame is at (counted as passed once the frame
\* below has failed), then the point within the loop body
SearchProgress(positions, obligations, failed, phase) ==
    <<IF failed /\ positions = <<>> THEN 1 ELSE 0>>
    \o [i \in 1..obligations |->
           IF i <= Len(positions)
           THEN positions[i] + (IF failed /\ i = Len(positions) THEN 1 ELSE 0)
           ELSE 0]
    \o <<phase>>

RECURSIVE TotalDomainSize(_)
TotalDomainSize(vs) ==
    IF vs = <<>> THEN 0 ELSE Len(domains[Head(vs)]) + TotalDomainSize(Tail(vs))

\* how far the running call is within its stage
Progress ==
    CASE pc = "ac3" -> <<0 - TotalDomainSize(variables), 0 - Len(queue)>>
      [] pc \in {"bt_call", "bt_loop", "bt_failed"} ->
            SearchProgress([i \in 1..Len(bt_stack) |-> bt_stack[i].pos],
                           Len(assignments), pc = "bt_failed",
                           IF pc = "bt_failed" THEN 0 ELSE IF pc = "bt_loop" THEN 1 ELSE 2)
      [] pc \in {"csp_call", "csp_loop", "csp_failed"} ->
            SearchProgress([i \in 1..Len(csp_stack) |-> csp_stack[i].pos],
                           Len(variables), pc = "csp_failed",
                           IF pc = "csp_failed" THEN 0 ELSE IF pc = "csp_loop" THEN 1 ELSE 2)
      [] pc = "greedy" -> <<g_sec, 0 - Len(g_todo)>>
      [] OTHER -> <<>>

\* a step takes the call to a later stage or further within its stage
Advances ==
    \/ Stage' > Stage
    \/ Stage' = Stage /\ LexLess(Progress, Progress')

\* the progress of a call is bounded: no frame is past the end of its options
ProgressBounded ==
    /\ \A i \in 1..Len(bt_stack) : bt_stack[i].pos <= Len(bt_stack[i].options) + 1
    /\ \A i \in 1..Len(csp_stack) :
          csp_stack[i].pos <= Len(csp_stack[i].domain_values) + 1
    /\ Len(bt_stack) <= Len(assignments)
    /\ Len(csp_stack) <= Len(variables)
    /\ g_sec <= Len(sections)

\* C15: every generate_schedule call on loaded tables terminates and returns a
\* schedule: each step of the call (of the backtracking recursion, of the AC-3
\* worklist loop, of the CSP recursion, of the greedy pass) advances a bounded
\* progress measure, and the call never ends by raising.
C15_EveryCallTerminatesAndReturns ==
    [][(loaded /\ Running) =>
          /\ Advances
          /\ ProgressBounded'
          /\ pc' # "raised"]_vars

\* the entry of a schedule as the single-session pattern it was recorded from
PatternOfEntry(e) == << Session(e.day, e.start_time, e.end_time - e.start_time) >>

\* the setting of the conflict test: one section, two matching Lecture courses
\* of 2 hours a week, two Lecture rooms, two teachers
TwoLectureScenario ==
    /\ loaded
    /\ Len(sections) = 1 /\ Len(faculty) = 2
    /\ Len(RoomsOfType(rooms, "Lecture")) = 2
    /\ Len(courses) = 2
    /\ \A c \in 1..2 : /\ courses[c].course_type = "Lecture"
                       /\ courses[c].hours_per_week = 2
                       /\ courses[c].term = sections[1].term

\* a step of strict greedy on a single-type course
StrictGreedyStepOnSingleType ==
    /\ pc = "greedy" /\ ~g_allow /\ g_todo # <<>>
    /\ g_todo' = Tail(g_todo)
    /\ Head(g_todo).course_type # "Both"

\* some (pattern, faculty, room) combination of the course greedy is at passes
\* the conflict check on the current ledgers
SomeCombinationPasses ==
    LET course_row == Head(g_todo)
        combinations ==
            Combinations(course_row.hours_per_week,
                         ComponentsOf(course_row)[1].component_type,
                         day_pairing_counter,
                         FindSuitableFaculty(faculty, course_row),
                         RoomsOfType(rooms, RequiredRoomType(course_row)))
    IN \E k \in 1..Len(combinations) :
          CanAssignPattern(combinations[k].pattern, combinations[k].faculty,
                           combinations[k].room, sections[g_sec].section_name,
                           St, FALSE)

GreedyStepWithAPassingCombination ==
    StrictGreedyStepOnSingleType /\ SomeCombinationPasses

C17_SkipChangesNothing ==
    [][(StrictGreedyStepOnSingleType /\ ~SomeCombinationPasses) =>
          /\ UNCHANGED <<schedule_list, faculty_schedule, room_schedule,
                         section_schedule, day_pairing_counter>>
          /\ log' = Append(log, [course_code |-> Head(g_todo).course_code,
                                section |-> sections[g_sec].section_name])
          /\ pc' = "greedy" /\ g_sec' = g_sec /\ error' = "none"]_vars

\* strict greedy with one Lecture room and one teacher returned a schedule in
\* which a course is placed for one section and was skipped for another, for
\* want of a free slot
C17_Witness ==
    /\ Returned /\ algorithm = "greedy" /\ ~allow_conflicts
    /\ Len(faculty) = 1 /\ Len(RoomsOfType(rooms, "Lecture")) = 1
    /\ \E l \in 1..Len(log) :
          /\ CourseOf(log[l].course_code).course_type = "Lecture"
          /\ \E i \in 1..Len(schedule_list) :
                /\ schedule_list[i].course_code = log[l].course_code
                /\ schedule_list[i].section # log[l].section
          /\ \A i \in 1..Len(schedule_list) :
                ~(schedule_list[i].course_code = log[l].course_code
                  /\ schedule_list[i].section = log[l].section)

\* the single-session patterns of H hours: one for every day and every slot of
\* the grid from which H hours end on a slot of the grid
SingleSessionPatterns(H) ==
    {<< Session(days[d], time_slots[i], 2 * H) >> :
        <<d, i>> \in {di \in (1..Len(days)) \X (1..Len(time_slots)) :
                        time_slots[di[2]] + 2 * H \in Range(time_slots)}}

\* C18: for a component of H <= 2 hours that is not split (a Lecture with
\* H <= 2, a Lab with H < 2) the pattern generator returns exactly the
\* single-session patterns of every (day, start_time) pair of the grid for
\* which start_time + H is a slot of the grid, each once, and no other pattern.
C18_SingleSessionPatternsAreComplete ==
    (gen_called /\ gen_hours \in 1..2 /\ ~(gen_type = "Lab" /\ gen_hours >= 2)) =>
        /\ Range(gen_patterns) = SingleSessionPatterns(gen_hours)
        /\ Len(gen_patterns) = Cardinality(SingleSessionPatterns(gen_hours))

\* C19: the time domain is the ordered sequence of 30-minute slots from 07:00
\* to 21:00, 28 slots a day, on the 6 operating days Monday to Saturday; 07:00
\* is its first slot and 21:00 is a slot of it, so that a session may end at
\* 21:00.
C19_TimeDomain ==
    /\ Len(time_slots) = 28
    /\ time_slots[1] = 2 * start_hour
    /\ \A i \in 1..(Len(time_slots) - 1) : time_slots[i + 1] = time_slots[i] + 1
    /\ days = <<"Monday", "Tuesday", "Wednesday", "Thursday", "Friday", "Saturday">>
    /\ 2 * end_hour \in Range(time_slots)
    /\ (gen_called /\ gen_hours = 2 /\ gen_type = "Lecture") =>
          \E k \in 1..Len(gen_patterns) : gen_patterns[k][1].end_time = 2 * end_hour

\* the call asks for a component that is split into two sessions
TwoSessionCall ==
    gen_called /\ ((gen_type = "Lab" /\ gen_hours >= 2) \/ gen_hours > 2)

\* the base day pairs rotated left by r
RotatedLeft(r) == [i \in 1..3 |-> base_day_pairings[((i - 1 + r) % 3) + 1]]

\* C20: whatever the rotation counter, a two-session call returns the same set
\* of patterns, with all three day pairs; the counter only sets the order: the
\* patterns come in three equal blocks, one per day pair, the day pairs in the
\* base order rotated left by counter mod 3.
C20_RotationOnlyReorders ==
    TwoSessionCall =>
        /\ \A c \in 0..MaxCounter :
              Range(gen_patterns) = Range(GetTimePatterns(gen_hours, gen_type, c))
        /\ gen_patterns # <<>>
        /\ Len(gen_patterns) % 3 = 0
        /\ \A k \in 1..Len(gen_patterns) :
              << gen_patterns[k][1].day, gen_patterns[k][2].day >>
                 = RotatedLeft(gen_counter % 3)[((k - 1) \div (Len(gen_patterns) \div 3)) + 1]

\* a call for a 3-hour Lecture with the counter at 2 modulo 3 returned patterns
\* that start with the pair Wednesday, Saturday
C20_Witness ==
    /\ TwoSessionCall /\ gen_hours = 3 /\ gen_type = "Lecture"
    /\ gen_counter % 3 = 2
    /\ gen_patterns[1][1].day = "Wednesday" /\ gen_patterns[1][2].day = "Saturday"

\* the three fixed day pairs, as ordered pairs of day names
DayPairs ==
    {<<base_day_pairings[p][1], base_day_pairings[p][2]>> : p \in 1..Len(base_day_pairings)}

\* C21: in a schedule returned by any of the three algorithms every entry of a
\* Lab course with 2 weekly hours lasts one hour and has a partner entry of the
\* same course and section with the same start and end on the other day of one
\* of the three fixed day pairs.
C21_TwoHourLabIsSplit ==
    Returned =>
        \A i \in 1..Len(schedule_list) :
            LET e == schedule_list[i]
                c == CourseOf(e.course_code)
            IN (c.course_type = "Lab" /\ c.hours_per_week = 2) =>
                 /\ e.end_time - e.start_time = 2
                 /\ \E j \in 1..Len(schedule_list) :
                       /\ schedule_list[j].course_code = e.course_code
                       /\ schedule_list[j].section = e.section
                       /\ schedule_list[j].start_time = e.start_time
                       /\ schedule_list[j].end_time = e.end_time
                       /\ \/ <<e.day, schedule_list[j].day>> \in DayPairs
                          \/ <<schedule_list[j].day, e.day>> \in DayPairs

\* C22: each of the two overlap tests returns true exactly when end1 > start2
\* and end2 > start1, returns the same with its two periods exchanged, and
\* returns false for periods that only touch (end1 = start2).
C22_OverlapIsHalfOpenAndSymmetric ==
    ov_called # "none" =>
        /\ ov_result = (ov_end1 > ov_start2 /\ ov_end2 > ov_start1)
        /\ ov_called = "_times_overlap" =>
              ov_result = TimesOverlap(ov_start2, ov_end2, ov_start1, ov_end1)
        /\ ov_called = "times_overlap" =>
              ov_result = times_overlap(ov_start2, ov_end2, ov_start1, ov_end1)
        /\ ov_end1 = ov_start2 => ~ov_result

\* the engine test was called on two proper periods that touch at a boundary
C22_Witness ==
    /\ ov_called = "_times_overlap"
    /\ ov_start1 < ov_end1 /\ ov_end1 = ov_start2 /\ ov_start2 < ov_end2
    /\ ~ov_result

\* C23: when the CSP solver returns the schedule converted from its solution,
\* every Both course has exactly one variable per section of its term, every
\* entry of a Both course is tagged Both, and all entries of one (course,
\* section) are with one faculty member in one room.
C23_CspKeepsBothWhole ==
    (Returned /\ algorithm = "constraint satisfaction" /\ ~fellback) =>
        /\ \A c \in 1..Len(courses_to_schedule) : \A s \in 1..Len(sections) :
              (/\ courses_to_schedule[c].course_type = "Both"
               /\ courses_to_schedule[c].term = sections[s].term) =>
                  Cardinality({v \in 1..Len(variables) :
                      variables[v] = VarName(courses_to_schedule[c], sections[s])}) = 1
        /\ \A i \in 1..Len(schedule_list) :
              CourseOf(schedule_list[i].course_code).course_type = "Both" =>
                  /\ schedule_list[i].course_type = "Both"
                  /\ \A j \in 1..Len(schedule_list) :
                        (/\ schedule_list[j].course_code = schedule_list[i].course_code
                         /\ schedule_list[j].section = schedule_list[i].section
                         /\ schedule_list[j].term = schedule_list[i].term) =>
                            /\ schedule_list[j].faculty = schedule_list[i].faculty
                            /\ schedule_list[j].room = schedule_list[i].room

\* the CSP solver returned its own schedule for a Both course and another course
C23_Witness ==
    /\ Returned /\ algorithm = "constraint satisfaction" /\ ~fellback
    /\ Len(courses_to_schedule) > 1
    /\ \E i \in 1..Len(schedule_list) :
          /\ CourseOf(schedule_list[i].course_code).course_type = "Both"
          /\ schedule_list[i].course_type = "Both"

\* a session of the pattern overlaps a session booked on its day under the name
GateClash(ledger, name) ==
    \E i \in 1..Len(gate_args.pattern) :
        /\ gate_args.pattern[i].day \in DOMAIN ledger[name]
        /\ \E k \in 1..Len(ledger[name][gate_args.pattern[i].day]) :
              LET booked == ledger[name][gate_args.pattern[i].day][k]
              IN /\ gate_args.pattern[i].end_time > booked.start_time
                 /\ booked.end_time > gate_args.pattern[i].start_time

\* C24: _can_assign_pattern returns true whenever conflicts are allowed; with
\* conflicts disallowed it returns false exactly when a session of the pattern
\* overlaps a session booked on the same day for that faculty member, that room
\* or that section; the three ledgers are the same after the call as before.
C24_GateDecidesByTheLedgers ==
    gate_called =>
        /\ gate_args.allow_conflicts => gate_result
        /\ ~gate_args.allow_conflicts =>
              (~gate_result <=>
                  \/ GateClash(gate_st.faculty_schedule, gate_args.faculty_name)
                  \/ GateClash(gate_st.room_schedule, gate_args.room_name)
                  \/ GateClash(gate_st.section_schedule, gate_args.section_name))
        /\ gate_after = gate_st

\* a strict call was refused although only the room has a clashing booking
C24_Witness ==
    /\ gate_called /\ ~gate_args.allow_conflicts /\ ~gate_result
    /\ GateClash(gate_st.room_schedule, gate_args.room_name)
    /\ ~GateClash(gate_st.faculty_schedule, gate_args.faculty_name)
    /\ ~GateClash(gate_st.section_schedule, gate_args.section_name)
    /\ Len(gate_args.pattern) = 2

\* a greedy step on a single-type course, with conflicts allowed or not
GreedyStepOnSingleType ==
    /\ pc = "greedy" /\ g_todo # <<>>
    /\ g_todo' = Tail(g_todo)
    /\ Head(g_todo).course_type # "Both"

\* the entries a step appended to the output list
AppendedEntries ==
    SubSeq(schedule_list', Len(schedule_list) + 1, Len(schedule_list'))

\* triple a = <<pattern, faculty, room>> comes before triple b in loop order
TripleBefore(a, b) ==
    \/ a[1] < b[1]
    \/ a[1] = b[1] /\ a[2] < b[2]
    \/ a[1] = b[1] /\ a[2] = b[2] /\ a[3] < b[3]

\* C25: a greedy step on a single-type course appends the sessions of exactly
\* one (pattern, faculty, room) combination, with that faculty member and that
\* room: the first that passes the conflict check on the ledgers before the
\* step, in the order pattern (generator order) outermost, then faculty (input
\* order), then room of the required type (input order); when none passes it
\* appends nothing.
C25_GreedyIsFirstFit ==
    [][GreedyStepOnSingleType =>
        LET course_row == Head(g_todo)
            section_name == sections[g_sec].section_name
            component_type == IF course_row.course_type = "Lecture"
                              THEN "Lecture" ELSE "Lab"
            time_patterns == GetTimePatterns(course_row.hours_per_week, component_type,
                                             day_pairing_counter)
            room_type == IF course_row.course_type = "Lab" THEN "Lab" ELSE "Lecture"
            suitable_rooms == SelectSeq(rooms, LAMBDA r : r.room_type = room_type)
            triples == (1..Len(time_patterns)) \X (1..Len(faculty))
                           \X (1..Len(suitable_rooms))
            Passes(t) == CanAssignPattern(time_patterns[t[1]], faculty[t[2]],
                                          suitable_rooms[t[3]].room_name,
                                          section_name, St, g_allow)
            Recorded(t) ==
                /\ Len(AppendedEntries) = Len(time_patterns[t[1]])
                /\ \A s \in 1..Len(AppendedEntries) :
                      /\ AppendedEntries[s].day = time_patterns[t[1]][s].day
                      /\ AppendedEntries[s].start_time = time_patterns[t[1]][s].start_time
                      /\ AppendedEntries[s].end_time = time_patterns[t[1]][s].end_time
                      /\ AppendedEntries[s].faculty = faculty[t[2]]
                      /\ AppendedEntries[s].room = suitable_rooms[t[3]].room_name
                      /\ AppendedEntries[s].course_code = course_row.course_code
                      /\ AppendedEntries[s].section = section_name
        IN IF AppendedEntries = <<>>
           THEN \A t \in triples : ~Passes(t)
           ELSE \E t \in triples :
                   /\ Recorded(t)
                   /\ Passes(t)
                   /\ \A u \in triples : TripleBefore(u, t) => ~Passes(u)]_vars

\* strict greedy placed a course with the second teacher in the second room at
\* the first start time: the three combinations before that one were refused
C25_Witness ==
    /\ Returned /\ algorithm = "greedy" /\ ~allow_conflicts
    /\ Len(faculty) = 2 /\ Len(schedule_list) = 2
    /\ schedule_list[2].faculty = faculty[2]
    /\ schedule_list[2].room = "R2"
    /\ schedule_list[2].start_time = time_slots[1]
    /\ schedule_list[2].day = "Monday"

\* a call of the generator for a component that is split: more than 2 hours,
\* or a Lab of 2 hours
SplitCall ==
    gen_called /\ (gen_hours > 2 \/ (gen_type = "Lab" /\ gen_hours = 2))

\* the two-session pattern on a day pair that starts at slot t, each session
\* hh half-hours long
PairPattern(pair, t, hh) ==
    << [day |-> pair[1], start_time |-> t, end_time |-> t + hh, duration |-> hh],
       [day |-> pair[2], start_time |-> t, end_time |-> t + hh, duration |-> hh] >>

\* C26: for a split component every generated pattern has exactly two
\* sessions, on the two days of one of the three fixed day pairs, with the same
\* start slot and each H/2 hours long, and the result holds exactly one such
\* pattern for every day pair and every start slot whose end, start + H/2, is
\* a slot.
C26_SplitPatternsAreExact ==
    SplitCall =>
        /\ \A i \in 1..Len(gen_patterns) :
              \E pair \in DayPairs, t \in Range(time_slots) :
                  /\ t + gen_hours \in Range(time_slots)
                  /\ gen_patterns[i] = PairPattern(pair, t, gen_hours)
        /\ \A pair \in DayPairs, t \in Range(time_slots) :
              t + gen_hours \in Range(time_slots) =>
                  Cardinality({i \in 1..Len(gen_patterns) :
                      gen_patterns[i] = PairPattern(pair, t, gen_hours)}) = 1

\* a 3-hour component was generated: its last pattern starts at 19:00, the last
\* slot from which a session of an hour and a half ends on the grid
C26_Witness ==
    /\ SplitCall /\ gen_hours = 3
    /\ Len(gen_patterns) = 3 * (Len(time_slots) - 3)
    /\ gen_patterns[Len(gen_patterns)][1].start_time = 2 * 19
    /\ gen_patterns[Len(gen_patterns)][1].end_time = time_slots[Len(time_slots)]

\* C27: every session of every generated pattern, for every hours value and
\* component type, starts and ends on a slot of the grid, ends at its start
\* plus its duration, and starts before it ends.
C27_SessionsAreProperAndOnTheGrid ==
    gen_called =>
        \A i \in 1..Len(gen_patterns) : \A s \in 1..Len(gen_patterns[i]) :
            LET session == gen_patterns[i][s]
            IN /\ session.start_time \in Range(time_slots)
               /\ session.end_time \in Range(time_slots)
               /\ session.end_time = session.start_time + session.duration
               /\ session.start_time < session.end_time

\* C28 as stated: every entry of the schedule list, under each of the three
\* algorithms, is in a room whose type is Lab if the type of its course
\* contains "lab" and Lecture otherwise.
C28_RoomTypeMatchesCourseType ==
    runs > 0 =>
        \A i \in 1..Len(schedule_list) :
            RoomTypeOf(schedule_list[i].room)
                = (IF CourseOf(schedule_list[i].course_code).course_type = "Lab"
                   THEN "Lab" ELSE "Lecture")

\* C28 amended: under each of the three algorithms every entry of a Lab course
\* is in a Lab room and every entry of a Lecture course is in a Lecture room;
\* an entry of a Both course that is tagged Lecture or Lab, as greedy tags the
\* two components, is in a room of the type of its tag.
C28_RoomTypeMatchesComponentType ==
    runs > 0 =>
        \A i \in 1..Len(schedule_list) :
            LET e == schedule_list[i]
                course_type == CourseOf(e.course_code).course_type
            IN /\ course_type = "Lab" => RoomTypeOf(e.room) = "Lab"
               /\ course_type = "Lecture" => RoomTypeOf(e.room) = "Lecture"
               /\ (course_type = "Both" /\ e.course_type \in {"Lecture", "Lab"}) =>
                     RoomTypeOf(e.room) = e.course_type

\* greedy, with a Lecture room first in the room table, returned a Lab course
\* in the Lab room and the Lab component of a Both course in the Lab room
C28_Witness ==
    /\ Returned /\ algorithm = "greedy" /\ ~allow_conflicts
    /\ rooms[1].room_type = "Lecture"
    /\ \E i \in 1..Len(schedule_list) :
          /\ CourseOf(schedule_list[i].course_code).course_type = "Lab"
          /\ RoomTypeOf(schedule_list[i].room) = "Lab"
    /\ \E i \in 1..Len(schedule_list) :
          /\ CourseOf(schedule_list[i].course_code).course_type = "Both"
          /\ schedule_list[i].course_type = "Lab"
          /\ RoomTypeOf(schedule_list[i].room) = "Lab"

\* hours_per_week, + 10 for a Lab or Both course, + 5 more for a Both course
ComplexityOf(course_row) ==
    course_row.hours_per_week
    + (IF course_row.course_type \in {"Lab", "Both"} THEN 10 ELSE 0)
    + (IF course_row.course_type = "Both" THEN 5 ELSE 0)

\* where a (course, section) stands in input order: section row, then course row
InputRank(course_row, section_row) ==
    << CHOOSE s \in 1..Len(sections) : sections[s] = section_row,
       CHOOSE c \in 1..Len(courses_to_schedule) : courses_to_schedule[c] = course_row >>

\* obligation a is due before obligation b: it is more complex, or as complex
\* and earlier in input order
DueBefore(a, b) ==
    \/ ComplexityOf(a.course) > ComplexityOf(b.course)
    \/ /\ ComplexityOf(a.course) = ComplexityOf(b.course)
       /\ LexLess(InputRank(a.course, a.section), InputRank(b.course, b.section))

\* the obligation a schedule entry was recorded for
ObligationOfEntry(e) ==
    [course |-> CourseOf(e.course_code),
     section |-> [section_name |-> e.section, program |-> e.program,
                  year_level |-> e.year_level, term |-> e.term]]

\* C29: while backtracking searches and when it returns its own schedule, the
\* list of obligations holds every matching (course, section) pair once, in
\* non-increasing order of complexity with equal complexities in input order,
\* and the entries recorded so far follow that order: an entry recorded earlier
\* is for the same obligation as a later one or for one due before it.
C29_BacktrackingOrdersByComplexity ==
    (runs > 0 /\ algorithm = "backtracking" /\ ~fellback /\ error = "none") =>
        /\ \A s \in 1..Len(sections) : \A c \in 1..Len(courses_to_schedule) :
              Cardinality({i \in 1..Len(assignments) :
                  /\ assignments[i].course = courses_to_schedule[c]
                  /\ assignments[i].section = sections[s]})
              = (IF /\ courses_to_schedule[c].program = sections[s].program
                    /\ courses_to_schedule[c].year_level = sections[s].year_level
                    /\ courses_to_schedule[c].term = sections[s].term
                 THEN 1 ELSE 0)
        /\ \A i, j \in 1..Len(assignments) :
              i < j => DueBefore(assignments[i], assignments[j])
        /\ \A i, j \in 1..Len(schedule_list) :
              i < j => \/ ObligationOfEntry(schedule_list[i])
                            = ObligationOfEntry(schedule_list[j])
                       \/ DueBefore(ObligationOfEntry(schedule_list[i]),
                                    ObligationOfEntry(schedule_list[j]))

\* backtracking returned a schedule for two courses and two sections in which
\* the course listed second, the more complex one, comes first for both
\* sections, each time in section order
C29_Witness ==
    /\ Returned /\ algorithm = "backtracking" /\ ~fellback
    /\ Len(courses_to_schedule) = 2 /\ Len(sections) = 2 /\ Len(assignments) = 4
    /\ assignments[1].course = courses_to_schedule[2]
    /\ assignments[2].course = courses_to_schedule[2]
    /\ assignments[1].section = sections[1]
    /\ assignments[2].section = sections[2]
    /\ schedule_list[1].course_code = courses_to_schedule[2].course_code
    /\ schedule_list[Len(schedule_list)].course_code = courses_to_schedule[1].course_code

\* the start hour of the first session, plus 20 when a session is on Saturday
ScoreOf(pattern) ==
    (pattern[1].start_time \div 2)
    + (IF \E s \in 1..Len(pattern) : pattern[s].day = "Saturday" THEN 20 ELSE 0)

\* the k-th option of the frame at a position of the backtracking stack
OptionAt(index, k) ==
    Option(bt_stack[index].options[k], assignments[index].course, rooms, faculty,
           bt_stack[index].counter)

\* C30: in every frame of the backtracking search the options stand in
\* ascending order of preference score, so the loop, which takes them from
\* first to last, records no option before one with a lower score; and with
\* conflicts disallowed the option the innermost loop is about to record passes
\* the conflict check on the ledgers as they are at that moment.
C30_OptionsAscendAndStillFit ==
    (algorithm = "backtracking" /\ pc \in {"bt_call", "bt_loop", "bt_failed"}) =>
        /\ \A index \in 1..Len(bt_stack) :
              LET pool == ObligationCombinations(assignments[index].course, rooms,
                                                 faculty, bt_stack[index].counter)
                  options == bt_stack[index].options
              IN \A k \in 1..(Len(options) - 1) :
                    ScoreOf(pool[options[k] + 1].pattern)
                        <= ScoreOf(pool[options[k + 1] + 1].pattern)
        /\ (/\ pc = "bt_loop" /\ ~allow_conflicts
            /\ bt_stack[Len(bt_stack)].pos <= Len(bt_stack[Len(bt_stack)].options)) =>
              LET option == OptionAt(Len(bt_stack), bt_stack[Len(bt_stack)].pos)
              IN CanAssignPattern(option.pattern, option.faculty, option.room,
                                  assignments[Len(bt_stack)].section.section_name,
                                  St, FALSE)

\* a strict search has undone the options of lower score of an obligation and
\* is about to record one on Saturday, whose score is 20 higher
C30_Witness ==
    /\ algorithm = "backtracking" /\ pc = "bt_loop" /\ ~allow_conflicts
    /\ bt_stack # <<>>
    /\ bt_stack[Len(bt_stack)].pos > 1
    /\ bt_stack[Len(bt_stack)].pos <= Len(bt_stack[Len(bt_stack)].options)
    /\ ScoreOf(OptionAt(Len(bt_stack), bt_stack[Len(bt_stack)].pos).pattern)
          = ScoreOf(OptionAt(Len(bt_stack), 1).pattern) + 20

\* some session of one pattern and some session of the other are on one day at
\* overlapping times
SessionsClash(pattern1, pattern2) ==
    \E i \in 1..Len(pattern1), j \in 1..Len(pattern2) :
        /\ pattern1[i].day = pattern2[j].day
        /\ pattern1[i].end_time > pattern2[j].start_time
        /\ pattern2[j].end_time > pattern1[i].start_time

\* C31: _values_satisfy_constraint declares two values incompatible exactly when
\* they share the faculty member, the room or the section name and a session
\* of one pattern overlaps a session of the other on the same day; it returns
\* the same with its two arguments exchanged.
C31_CompatibilityIsSharedResourceAndOverlap ==
    compat_called =>
        /\ ~compat_result <=>
              /\ \/ compat_value1.faculty = compat_value2.faculty
                 \/ compat_value1.room = compat_value2.room
                 \/ compat_value1.section.section_name = compat_value2.section.section_name
              /\ SessionsClash(compat_value1.pattern, compat_value2.pattern)
        /\ compat_result = ValuesSatisfyConstraint(compat_value2, compat_value1)

\* two values that share only the section name, one with a Monday and Thursday
\* pattern and one with a Thursday session at an overlapping time, were found
\* incompatible
C31_Witness ==
    /\ compat_called /\ ~compat_result
    /\ compat_value1.faculty # compat_value2.faculty
    /\ compat_value1.room # compat_value2.room
    /\ compat_value1.section.section_name = compat_value2.section.section_name
    /\ Len(compat_value1.pattern) = 2 /\ Len(compat_value2.pattern) = 1
    /\ compat_value2.pattern[1].day = "Thursday"

\* C32: when the CSP search has failed entirely, and while the greedy fallback
\* that follows runs, every variable's domain holds exactly the values it held
\* when the search was entered and the partial assignment is empty.
C32_FailedSearchRestoresDomains ==
    (algorithm = "constraint satisfaction" /\ error = "none"
     /\ \/ pc = "csp_failed" /\ csp_stack = <<>>
        \/ fellback) =>
        /\ domains = search_domains
        /\ assignment = <<>>

\* a strict search that tried values and pruned a domain by forward checking
\* has failed entirely
C32_Witness ==
    /\ algorithm = "constraint satisfaction" /\ ~allow_conflicts
    /\ pc = "csp_failed" /\ csp_stack = <<>>
    /\ steps > 1
    /\ Len(variables) > 1

\* the sessions one option of an obligation holds in backtracking
SessionsPerOption(course_row) ==
    LET patterns == GetTimePatterns(course_row.hours_per_week, "Lecture", 0)
    IN IF patterns = <<>> THEN 0 ELSE Len(patterns[1])

\* the entries a complete schedule of a list of obligations holds
RECURSIVE EntriesToPlace(_)
EntriesToPlace(obligations) ==
    IF obligations = <<>> THEN 0
    ELSE SessionsPerOption(Head(obligations).course) + EntriesToPlace(Tail(obligations))

\* every (pattern, faculty, room) option of the obligation at a position
OptionPool(index) ==
    ObligationCombinations(assignments[index].course, rooms, faculty, 0)

\* two options of two obligations share the faculty member, the room or the
\* section name and have sessions at overlapping times
OptionsClash(option1, index1, option2, index2) ==
    /\ \/ option1.faculty = option2.faculty
       \/ option1.room = option2.room
       \/ assignments[index1].section.section_name
              = assignments[index2].section.section_name
    /\ SessionsClash(option1.pattern, option2.pattern)

\* the options chosen for the obligations before a position extend to a
\* conflict-free choice for all of them
RECURSIVE ChoiceExtends(_, _)
ChoiceExtends(chosen, index) ==
    IF index > Len(assignments) THEN TRUE
    ELSE \E k \in 1..Len(OptionPool(index)) :
            /\ \A j \in 1..(index - 1) :
                  ~OptionsClash(chosen[j], j, OptionPool(index)[k], index)
            /\ ChoiceExtends(Append(chosen, OptionPool(index)[k]), index + 1)

ConflictFreeChoiceExists ==
    /\ \A index \in 1..Len(assignments) : OptionPool(index) # <<>>
    /\ ChoiceExtends(<<>>, 1)

\* no two entries that share the faculty member, the room or the section name
\* overlap
ConflictFree(schedule) ==
    \A i, j \in 1..Len(schedule) :
        (/\ i < j
         /\ \/ schedule[i].faculty = schedule[j].faculty
            \/ schedule[i].room = schedule[j].room
            \/ schedule[i].section = schedule[j].section)
            => ~EntriesOverlap(schedule[i], schedule[j])

\* the entries of a list are the sessions of an option recorded for the
\* obligation at a position
EntriesOfOption(entries, option, index) ==
    /\ Len(entries) = Len(option.pattern)
    /\ \A s \in 1..Len(entries) :
          /\ entries[s].day = option.pattern[s].day
          /\ entries[s].start_time = option.pattern[s].start_time
          /\ entries[s].end_time = option.pattern[s].end_time
          /\ entries[s].faculty = option.faculty
          /\ entries[s].room = option.room
          /\ entries[s].course_code = assignments[index].course.course_code
          /\ entries[s].section = assignments[index].section.section_name

StrictBacktracking ==
    /\ runs > 0 /\ algorithm = "backtracking" /\ ~allow_conflicts /\ error = "none"
    /\ max_iterations >= EntriesToPlace(assignments)

\* what a strict backtracking run with a sufficient budget ends in
C33_Outcome ==
    StrictBacktracking =>
        /\ fellback => ~ConflictFreeChoiceExists
        /\ (Returned /\ ~fellback) =>
              /\ Len(schedule_list) = EntriesToPlace(assignments)
              /\ ConflictFree(schedule_list)

\* what the steps of that search do to the stack and the output list
C33_Step ==
    (StrictBacktracking /\ ~fellback) =>
        /\ (pc = "bt_loop" /\ pc' = "bt_failed") =>
              /\ bt_stack[Len(bt_stack)].pos > Len(bt_stack[Len(bt_stack)].options)
              /\ bt_stack' = SubSeq(bt_stack, 1, Len(bt_stack) - 1)
              /\ schedule_list' = schedule_list
        /\ (pc = "bt_failed" /\ bt_stack # <<>>) =>
              LET index == Len(bt_stack)
                  kept == Len(schedule_list) - Len(FrameOption(index).pattern)
              IN /\ EntriesOfOption(SubSeq(schedule_list, kept + 1, Len(schedule_list)),
                                    FrameOption(index), index)
                 /\ schedule_list' = SubSeq(schedule_list, 1, kept)
                 /\ pc' = "bt_loop"
                 /\ bt_stack' = [bt_stack EXCEPT ![index].pos = @ + 1]
        /\ (pc = "bt_loop" /\ pc' = "bt_call") =>
              LET index == Len(bt_stack)
              IN /\ EntriesOfOption(AppendedEntries,
                                    OptionAt(index, bt_stack[index].pos), index)
                 /\ \A k \in 1..(bt_stack[index].pos - 1) :
                       ~EntriesOfOption(AppendedEntries, OptionAt(index, k), index)

\* C33: strict backtracking is complete.  With conflicts disallowed and
\* max_iterations at least the number of entries to place, the search falls
\* back to greedy only when no choice of one option per obligation is
\* conflict-free, and the schedule it returns without falling back holds every
\* obligation's sessions and no conflict.  A frame that has run out of
\* options returns to the frame before it, which removes the entries of the
\* option it had recorded and goes on with its next option; each option a
\* frame records is the one its loop is at, never an earlier one.
C33_StrictBacktrackingIsComplete ==
    /\ []C33_Outcome
    /\ [][C33_Step]_vars

\* the search backed up from a dead end and then placed four obligations
C33_Witness ==
    /\ StrictBacktracking /\ Returned /\ ~fellback
    /\ Len(assignments) = 4
    /\ steps > Len(assignments)
    /\ ConflictFreeChoiceExists

\* two domain values can stand together: they share no faculty member, room
\* or section name, or no session of one overlaps a session of the other
ValuesCompatible(value1, value2) ==
    \/ /\ value1.faculty # value2.faculty
       /\ value1.room # value2.room
       /\ value1.section.section_name # value2.section.section_name
    \/ ~SessionsClash(value1.pattern, value2.pattern)

\* every value of every variable has a compatible value in the domain of
\* every other variable
ArcConsistent(doms) ==
    LET vals == Values
    IN \A x, y \in Range(variables) :
          x # y =>
              \A i \in 1..Len(doms[x]) : \E j \in 1..Len(doms[y]) :
                  ValuesCompatible(CspValue(x, doms[x][i], vals),
                                   CspValue(y, doms[y][j], vals))

\* a list holds some of the elements of another, none twice, in its order
IsSubList(small, big) ==
    /\ \A i \in 1..Len(small) : \E j \in 1..Len(big) : small[i] = big[j]
    /\ \A i, j \in 1..Len(small) :
          i < j => \E m, n \in 1..Len(big) :
                      m < n /\ small[i] = big[m] /\ small[j] = big[n]

\* AC-3 has returned the domains to _solve_csp
ArcConsistencyFinished ==
    \/ pc = "ac3" /\ queue = <<>>
    \/ pc \in {"csp_call", "csp_failed"} /\ csp_stack = <<>> /\ assignment = <<>>

\* C34: while AC-3 runs and after it, the domain of every variable holds some
\* of the values it held when AC-3 was called, in the same order and none
\* twice, so AC-3 only removes values; and when AC-3 has returned the domains,
\* every value left in the domain of a variable has a compatible value left
\* in the domain of every other variable.
C34_ArcConsistencyReached ==
    (algorithm = "constraint satisfaction" /\ ~allow_conflicts
     /\ pc \in {"ac3", "raised", "csp_call", "csp_failed"}
     /\ csp_stack = <<>> /\ assignment = <<>>) =>
        /\ \A v \in DOMAIN domains : IsSubList(domains[v], initial_domains[v])
        /\ ArcConsistencyFinished => ArcConsistent(domains)

\* AC-3 returned non-empty domains after removing two values of a variable
\* and none of another, from domains that were not arc-consistent
C34_Witness ==
    /\ pc = "csp_call" /\ csp_stack = <<>>
    /\ \A v \in DOMAIN domains : domains[v] # <<>>
    /\ \E v \in DOMAIN domains : Len(domains[v]) + 1 < Len(initial_domains[v])
    /\ \E v \in DOMAIN domains : domains[v] = initial_domains[v]
    /\ ArcConsistent(domains)
    /\ ~ArcConsistent(initial_domains)

\* the complete conflict-free assignments over given domains: one combination
\* number per variable, every two values compatible
ConflictFreeAssignments(doms) ==
    LET vals == Values
    IN {a \in [Range(variables) -> UNION {Range(doms[v]) : v \in DOMAIN doms}] :
           /\ \A v \in Range(variables) : a[v] \in Range(doms[v])
           /\ \A x, y \in Range(variables) :
                 x # y => ValuesCompatible(CspValue(x, a[x], vals),
                                           CspValue(y, a[y], vals))}

\* C35: AC-3 is sound.  While it runs and when it has ended, every value of
\* every complete conflict-free assignment over the domains it was called with
\* is still in its variable's domain; so when such an assignment exists AC-3
\* empties no domain and the search is entered with the assignment's values
\* in the domains.
C35_ArcConsistencyIsSound ==
    (algorithm = "constraint satisfaction" /\ ~allow_conflicts
     /\ pc \in {"ac3", "raised", "csp_call", "csp_failed"}
     /\ csp_stack = <<>> /\ assignment = <<>>) =>
        \A a \in ConflictFreeAssignments(initial_domains) :
            /\ \A v \in Range(variables) : a[v] \in Range(domains[v])
            /\ pc \in {"ac3", "csp_call"}

\* AC-3 removed values and returned domains that still hold a conflict-free
\* assignment over the domains it was called with
C35_Witness ==
    /\ pc = "csp_call" /\ csp_stack = <<>> /\ assignment = <<>>
    /\ ConflictFreeAssignments(initial_domains) # {}
    /\ \E v \in DOMAIN domains : Len(domains[v]) < Len(initial_domains[v])
    /\ \E v \in DOMAIN domains : Len(domains[v]) > 1

\* C36: in a CSP search with conflicts disallowed, whenever the recursive
\* search is entered every unassigned variable has a non-empty domain whose
\* every value is compatible with the value of every assigned variable, no
\* variable is assigned twice and every two assigned values are compatible.
C36_ForwardCheckingInvariant ==
    (algorithm = "constraint satisfaction" /\ ~allow_conflicts
     /\ pc = "csp_call" /\ error = "none") =>
        LET vals == Values
            ValueOf(i) == CspValue(assignment[i].var, assignment[i].value, vals)
        IN /\ \A u \in Range(variables) \ Assigned(assignment) :
                 /\ domains[u] # <<>>
                 /\ \A k \in Range(domains[u]) : \A i \in 1..Len(assignment) :
                       ValuesCompatible(CspValue(u, k, vals), ValueOf(i))
           /\ \A i, j \in 1..Len(assignment) :
                 i < j => /\ assignment[i].var # assignment[j].var
                          /\ ValuesCompatible(ValueOf(i), ValueOf(j))

\* the search is entered with two variables assigned and a third whose domain
\* forward checking has pruned, after a value was skipped or undone
C36_Witness ==
    /\ algorithm = "constraint satisfaction" /\ ~allow_conflicts
    /\ pc = "csp_call" /\ error = "none"
    /\ Len(assignment) = 2
    /\ steps > Len(assignment)
    /\ \E u \in Range(variables) \ Assigned(assignment) :
          Len(domains[u]) < Len(search_domains[u])

\* the session a ledger holds for an output entry
InfoOfEntry(e) ==
    [start_time |-> e.start_time, end_time |-> e.end_time,
     course |-> e.course_code, section |-> e.section]

\* how often a list holds an element
CountIn(list, x) == Cardinality({i \in 1..Len(list) : list[i] = x})

\* A ledger and the output list describe the same bookings: the sessions the
\* ledger holds under a name and a day for an output entry of that name (its
\* faculty, room or section field) and day are as many as the output entries
\* alike, at least one, and the ledger holds no other session.
LedgerMatchesOutput(ledger, field) ==
    /\ \A i \in 1..Len(schedule_list) :
          LET e == schedule_list[i]
          IN /\ e[field] \in DOMAIN ledger
             /\ e.day \in DOMAIN ledger[e[field]]
             /\ CountIn(ledger[e[field]][e.day], InfoOfEntry(e))
                   = Cardinality({j \in 1..Len(schedule_list) :
                         /\ schedule_list[j][field] = e[field]
                         /\ schedule_list[j].day = e.day
                         /\ InfoOfEntry(schedule_list[j]) = InfoOfEntry(e)})
    /\ \A name \in DOMAIN ledger : \A day \in DOMAIN ledger[name] :
          \A k \in 1..Len(ledger[name][day]) :
              \E j \in 1..Len(schedule_list) :
                  /\ schedule_list[j][field] = name
                  /\ schedule_list[j].day = day
                  /\ InfoOfEntry(schedule_list[j]) = ledger[name][day][k]

\* C37: in greedy and in backtracking, at every point of a run, each of the
\* three ledgers and the output list describe the same bookings: every output
\* entry has its session in the faculty ledger under its faculty and day, in
\* the room ledger under its room and day and in the section ledger under its
\* section and day, once per entry, and no ledger holds a session without an
\* output entry.
C37_LedgersMatchOutput ==
    (runs > 0 /\ error = "none" /\ algorithm \in {"greedy", "backtracking"}
     /\ pc \in {"greedy", "bt_call", "bt_loop", "bt_failed", "done"}) =>
        /\ LedgerMatchesOutput(faculty_schedule, "faculty")
        /\ LedgerMatchesOutput(room_schedule, "room")
        /\ LedgerMatchesOutput(section_schedule, "section")

\* the (course, section) obligations that have entries in the output list
RecordedObligations ==
    {<<schedule_list[i].course_code, schedule_list[i].section>> :
        i \in 1..Len(schedule_list)}

\* a ledger holds no session and no day
LedgerIsEmpty(ledger) ==
    \A name \in DOMAIN ledger : DOMAIN ledger[name] = {}

\* C38: during a backtracking run the rotation counter minus its value at entry
\* equals the number of obligations that have entries in the output list, so
\* it never drops below the entry value; and when the whole search has failed,
\* before the greedy fallback starts, the counter is back at its entry value
\* and the output list and the three ledgers are empty.
C38_CounterStaysBalanced ==
    (runs > 0 /\ algorithm = "backtracking" /\ error = "none" /\ ~fellback
     /\ pc \in {"bt_call", "bt_loop", "bt_failed", "done"}) =>
        /\ day_pairing_counter - entry_counter = Cardinality(RecordedObligations)
        /\ day_pairing_counter >= entry_counter
        /\ (pc = "bt_failed" /\ bt_stack = <<>>) =>
              /\ day_pairing_counter = entry_counter
              /\ schedule_list = <<>>
              /\ LedgerIsEmpty(faculty_schedule)
              /\ LedgerIsEmpty(room_schedule)
              /\ LedgerIsEmpty(section_schedule)

\* the whole search failed after recording and undoing options of several
\* obligations, without running out of budget
C38_Witness ==
    /\ runs > 0 /\ algorithm = "backtracking" /\ error = "none" /\ ~fellback
    /\ pc = "bt_failed" /\ bt_stack = <<>>
    /\ ~budget_exceeded
    /\ steps > 2
    /\ Len(assignments) > 1

====
